---- MODULE Spec2Model ----
(***************************************************************************)
(* Agentique: a browser extension that injects a formatted "role" text     *)
(* into the prompt input of an AI chat page.  This module models the       *)
(* content script src/content-scripts/role-injector.js: the platform       *)
(* table, the text merge, and the injector's event-driven state machine.   *)
(*                                                                         *)
(* Strings are sequences of one-character strings, so that substring       *)
(* search, trimming, splitting and joining are computed as the code        *)
(* computes them.                                                          *)
(***************************************************************************)
EXTENDS Integers, Sequences, FiniteSets, TLC

(***************************************************************************)
(* String primitives of the JavaScript runtime                             *)
(***************************************************************************)

\* String.prototype.startsWith at position i (1-based): sub occurs at h[i..]
occursAt(h, sub, i) ==
    /\ i + Len(sub) - 1 <= Len(h)
    /\ \A k \in 1..Len(sub) : h[i + k - 1] = sub[k]

\* least element of a non-empty set of positions
Least(S) ==
    CHOOSE i \in S : \A j \in S : i <= j

\* String.prototype.indexOf(sub, from): first index >= from at which sub occurs, 0 when none
indexOfFrom(h, sub, from) ==
    LET at == {i \in from..(Len(h) - Len(sub) + 1) : occursAt(h, sub, i)}
    IN  IF at = {} THEN 0 ELSE Least(at)

\* String.prototype.includes
includes(h, sub) == indexOfFrom(h, sub, 1) # 0

(***************************************************************************)
(* Platform table                                                          *)
(***************************************************************************)

S_chat_openai_com ==
    <<"c","h","a","t",".","o","p","e","n","a","i",".","c","o","m">>

S_chatgpt_com ==
    <<"c","h","a","t","g","p","t",".","c","o","m">>

S_claude_ai ==
    <<"c","l","a","u","d","e",".","a","i">>

S_gemini_google_com ==
    <<"g","e","m","i","n","i",".","g","o","o","g","l","e",".","c","o","m">>

S_grok_com ==
    <<"g","r","o","k",".","c","o","m">>

S_x_com ==
    <<"x",".","c","o","m">>

S_twitter_com ==
    <<"t","w","i","t","t","e","r",".","c","o","m">>

S_example_com ==
    <<"e","x","a","m","p","l","e",".","c","o","m">>

S_www ==
    <<"w","w","w",".">>

S_ma ==
    <<"m","a">>


\* PLATFORMS keys in Object.entries order
PlatformKeys ==
    <<"CHATGPT", "CLAUDE", "GEMINI", "GROK">>

\* the descriptor table: host patterns and editing mode of each platform
PLATFORMS ==
    [CHATGPT |-> [name |-> "ChatGPT",
                  hostPatterns |-> <<S_chat_openai_com, S_chatgpt_com>>,
                  isContentEditable |-> TRUE],
     CLAUDE  |-> [name |-> "Claude",
                  hostPatterns |-> <<S_claude_ai>>,
                  isContentEditable |-> TRUE],
     GEMINI  |-> [name |-> "Gemini",
                  hostPatterns |-> <<S_gemini_google_com>>,
                  isContentEditable |-> TRUE],
     GROK    |-> [name |-> "Grok",
                  hostPatterns |-> <<S_grok_com, S_x_com, S_twitter_com>>,
                  isContentEditable |-> FALSE]]

\* the null reference held by currentPlatform before and after a failed detection
NoPlatform ==
    "null"

\* a slip that tests only the first host pattern of each descriptor
matchesHostFirstPatternOnly(key, hostname) ==
    includes(hostname, PLATFORMS[key].hostPatterns[1])

\* platform.hostPatterns.some(pattern => hostname.includes(pattern))
matchesHost(key, hostname) ==
    \E j \in 1..Len(PLATFORMS[key].hostPatterns) :
        includes(hostname, PLATFORMS[key].hostPatterns[j])

RECURSIVE detectFrom(_, _)
\* the for-of loop of detectPlatform, from table entry i on
detectFrom(hostname, i) ==
    IF i > Len(PlatformKeys) THEN NoPlatform
    ELSE IF matchesHost(PlatformKeys[i], hostname) THEN PlatformKeys[i]
    ELSE detectFrom(hostname, i + 1)

\* detectPlatform(): first descriptor with a pattern inside the hostname, else null
detectPlatform(hostname) ==
    detectFrom(hostname, 1)

(***************************************************************************)
(* Text primitives used by the merge                                       *)
(***************************************************************************)

\* the characters String.prototype.trim removes
IsWhitespace(c) ==
    c \in {" ", "\n", "\t"}

\* positions of s that hold a character trim keeps
Inked(s) ==
    {i \in 1..Len(s) : ~IsWhitespace(s[i])}

\* a string taken as it is, where the code trims it
untrimmed(s) ==
    s

\* String.prototype.trim
trim(s) ==
    IF Inked(s) = {} THEN <<>>
    ELSE SubSeq(s, Least(Inked(s)), CHOOSE i \in Inked(s) : \A j \in Inked(s) : j <= i)

RECURSIVE split(_, _)
\* String.prototype.split with a non-empty separator
split(s, sep) ==
    LET i == indexOfFrom(s, sep, 1)
    IN  IF i = 0 THEN <<s>>
        ELSE <<SubSeq(s, 1, i - 1)>> \o split(SubSeq(s, i + Len(sep), Len(s)), sep)

RECURSIVE join(_, _)
\* Array.prototype.join
join(parts, sep) ==
    IF parts = <<>> THEN <<>>
    ELSE IF Len(parts) = 1 THEN parts[1]
    ELSE parts[1] \o sep \o join(Tail(parts), sep)

NL ==
    <<"\n">>

NL2 ==
    <<"\n", "\n">>

TagP ==
    <<"<", "p", ">">>

TagPEnd ==
    <<"<", "/", "p", ">">>

TagBr ==
    <<"<", "b", "r", ">">>

(***************************************************************************)
(* The input surface and the merge (getPromptValue, setPromptValue)        *)
(***************************************************************************)

\* the kind of element the descriptor's editing mode is written for
inputKind(platform) ==
    IF PLATFORMS[platform].isContentEditable THEN "editable" ELSE "textarea"

\* the kinds of element selectors.promptInput of each descriptor can match: a
\* textarea, a div with contenteditable="true", or another element (the id
\* selector #prompt-textarea matches whatever element carries the id, and
\* rich-textarea is a custom element)
promptInputKinds ==
    [CHATGPT |-> {"textarea", "editable", "other"},
     CLAUDE  |-> {"editable"},
     GEMINI  |-> {"editable", "other"},
     GROK    |-> {"textarea", "editable"}]

\* a fresh input element of the page holding text as its content
NewElement(kind, text) ==
    [kind  |-> kind,
     value |-> IF kind = "textarea" THEN text ELSE <<>>,
     html  |-> IF kind = "editable" THEN text ELSE <<>>,
     caret |-> 0,
     log   |-> <<>>]

\* the characters that make the HTML parser read a "<" before them as the start
\* of markup (a tag name, an end tag, a declaration or a processing instruction)
MarkupOpeners ==
    {"a", "b", "c", "d", "e", "f", "g", "h", "i", "j", "k", "l", "m", "n", "o",
     "p", "q", "r", "s", "t", "u", "v", "w", "x", "y", "z", "A", "B", "C", "D",
     "E", "F", "G", "H", "I", "J", "K", "L", "M", "N", "O", "P", "Q", "R", "S",
     "T", "U", "V", "W", "X", "Y", "Z", "/", "!", "?"}

\* positions of html the parser of innerHTML reads as markup: from a "<" that an
\* opener follows up to the next ">", or to the end when there is none
InTag(html, i) ==
    \E j \in 1..i :
        /\ html[j] = "<"
        /\ j < Len(html)
        /\ html[j + 1] \in MarkupOpeners
        /\ \A k \in j..(i - 1) : html[k] # ">"

RECURSIVE textBetween(_, _, _)
\* the characters of html[lo..hi] that lie outside the tags, in order
textBetween(html, lo, hi) ==
    IF lo > hi THEN <<>>
    ELSE IF lo = hi THEN (IF InTag(html, lo) THEN <<>> ELSE <<html[lo]>>)
    ELSE textBetween(html, lo, (lo + hi) \div 2)
             \o textBetween(html, (lo + hi) \div 2 + 1, hi)

\* Node.textContent of a region whose markup is html: the text outside the tags
textContentOf(html) ==
    textBetween(html, 1, Len(html))

textContent(el) ==
    textContentOf(el.html)

\* getPromptValue() on a held element
getPromptValue(el, platform) ==
    IF PLATFORMS[platform].isContentEditable THEN textContent(el) ELSE el.value

\* currentText + separator + text, the separator present when currentText.trim() is non-empty
combinedText(currentText, text) ==
    currentText \o (IF trim(currentText) # <<>> THEN NL2 ELSE <<>>) \o text

\* a slip that turns every line break into a line-break element inside one paragraph
htmlContentOneParagraph(text) ==
    TagP \o join(split(text, NL), TagBr) \o TagPEnd

\* split('\n\n').map(p => `<p>${p.split('\n').join('<br>')}</p>`).join('')
htmlContent(text) ==
    LET paragraphs == split(text, NL2)
        wrapped == [k \in 1..Len(paragraphs) |->
                       TagP \o join(split(paragraphs[k], NL), TagBr) \o TagPEnd]
    IN  join(wrapped, <<>>)

\* a slip that dispatches the input notification before it writes the content
setPromptValueNotifyFirst(el, platform, text) ==
    LET combined == combinedText(getPromptValue(el, platform), text)
    IN  IF PLATFORMS[platform].isContentEditable
        THEN [el EXCEPT !.html = htmlContent(combined),
                        !.caret = Len(textContentOf(htmlContent(combined))),
                        !.log = @ \o <<"input", "innerHTML", "selection", "focus">>]
        ELSE [el EXCEPT !.value = combined,
                        !.caret = Len(combined),
                        !.log = @ \o <<"input", "value", "change", "focus", "caret">>]

\* setPromptValue(text) on a held element: the element after the write, the
\* notifications and the caret move, log recording their order
setPromptValue(el, platform, text) ==
    LET combined == combinedText(getPromptValue(el, platform), text)
    IN  IF PLATFORMS[platform].isContentEditable
        THEN [el EXCEPT !.html = htmlContent(combined),
                        !.caret = Len(textContentOf(htmlContent(combined))),
                        !.log = @ \o <<"innerHTML", "input", "selection", "focus">>]
        ELSE [el EXCEPT !.value = combined,
                        !.caret = Len(combined),
                        !.log = @ \o <<"value", "input", "change", "focus", "caret">>]

(***************************************************************************)
(* Roles and the injected template (formatRoleForInjection)                *)
(***************************************************************************)

L_Role ==
    <<"R","o","l","e",":"," ">>

L_Task ==
    <<"T","a","s","k",":"," ","[","D","e","s","c","r","i","b","e"," ","y","o","u","r"," ","t","a","s","k"," ","h","e","r","e","]">>

L_Area ==
    <<"A","r","e","a",":"," ">>

L_Description ==
    <<"D","e","s","c","r","i","p","t","i","o","n",":"," ">>

L_Skills ==
    <<"S","k","i","l","l","s",":","\n">>

L_Tools ==
    <<"T","o","o","l","s",":","\n">>

L_Constraints ==
    <<"C","o","n","s","t","r","a","i","n","t","s",":","\n">>

L_Bullet ==
    <<"-"," ">>

L_Behavior ==
    <<"B","e","h","a","v","i","o","r"," ","&"," ","T","o","n","a","l","i","t","y",":"," ">>

L_MoreInfo ==
    <<"A","d","d","i","t","i","o","n","a","l"," ","I","n","f","o","r","m","a","t","i","o","n",":"," ">>

L_RoleContext ==
    <<"R","o","l","e"," ","C","o","n","t","e","x","t",":">>

L_MoreContext ==
    <<"M","o","r","e"," ","C","o","n","t","e","x","t",":"," ","[","A","d","d"," ","a","n","y"," ","a","d","d","i","t","i","o","n","a","l"," ","c","o","n","t","e","x","t",","," ","d","a","t","a",","," ","o","r"," ","b","a","c","k","g","r","o","u","n","d"," ","i","n","f","o","r","m","a","t","i","o","n"," ","h","e","r","e","]">>

\* items.map(s => `- ${s}`).join('\n')
bulleted(items) ==
    join([k \in 1..Len(items) |-> L_Bullet \o items[k]], NL)

\* a slip that takes every defined field for a populated one
populatedWhenDefined(role, f) ==
    f \in DOMAIN role

\* a field of a role is truthy: defined and not the empty string; for an array
\* field, "role.f && role.f.length > 0"
populated(role, f) ==
    f \in DOMAIN role /\ role[f] # <<>>

\* a slip that lists the tools before the skills
formatRoleForInjectionToolsFirst(role) ==
    LET contextParts ==
            (IF populated(role, "area") THEN <<L_Area \o role.area>> ELSE <<>>)
         \o (IF populated(role, "description")
                THEN <<L_Description \o role.description>> ELSE <<>>)
         \o (IF populated(role, "tools") THEN <<L_Tools \o bulleted(role.tools)>> ELSE <<>>)
         \o (IF populated(role, "skills") THEN <<L_Skills \o bulleted(role.skills)>> ELSE <<>>)
         \o (IF populated(role, "constraints")
                THEN <<L_Constraints \o bulleted(role.constraints)>> ELSE <<>>)
         \o (IF populated(role, "behavior") THEN <<L_Behavior \o role.behavior>> ELSE <<>>)
         \o (IF populated(role, "moreInfo") THEN <<L_MoreInfo \o role.moreInfo>> ELSE <<>>)
        sections ==
            << L_Role \o role.name, <<>>, <<>>,
               L_Task, <<>>, <<>>,
               L_RoleContext, join(contextParts, NL2), <<>>, <<>>,
               L_MoreContext >>
    IN  join(sections, NL)

\* formatRoleForInjection(role): the sections joined by line breaks; a field that
\* is falsy (undefined, an empty string, an empty array) adds no part to the
\* context block
formatRoleForInjection(role) ==
    LET contextParts ==
            (IF populated(role, "area") THEN <<L_Area \o role.area>> ELSE <<>>)
         \o (IF populated(role, "description")
                THEN <<L_Description \o role.description>> ELSE <<>>)
         \o (IF populated(role, "skills") THEN <<L_Skills \o bulleted(role.skills)>> ELSE <<>>)
         \o (IF populated(role, "tools") THEN <<L_Tools \o bulleted(role.tools)>> ELSE <<>>)
         \o (IF populated(role, "constraints")
                THEN <<L_Constraints \o bulleted(role.constraints)>> ELSE <<>>)
         \o (IF populated(role, "behavior") THEN <<L_Behavior \o role.behavior>> ELSE <<>>)
         \o (IF populated(role, "moreInfo") THEN <<L_MoreInfo \o role.moreInfo>> ELSE <<>>)
        sections ==
            << L_Role \o role.name, <<>>, <<>>,
               L_Task, <<>>, <<>>,
               L_RoleContext, join(contextParts, NL2), <<>>, <<>>,
               L_MoreContext >>
    IN  join(sections, NL)

L_Context ==
    <<"C","o","n","t","e","x","t",":"," ","[","A","d","d"," ","r","e","l","e","v","a","n","t"," ","c","o","n","t","e","x","t",","," ","d","a","t","a",","," ","o","r"," ","b","a","c","k","g","r","o","u","n","d"," ","i","n","f","o","r","m","a","t","i","o","n"," ","h","e","r","e","]">>

L_Rule ==
    <<"-", "-", "-">>

L_RoleProfile ==
    <<"R","o","l","e"," ","P","r","o","f","i","l","e",":">>

\* the lines one sequence field pushes: its header, one bullet per item and a
\* blank line
pushedItems(header, items) ==
    <<header>> \o [k \in 1..Len(items) |-> L_Bullet \o items[k]] \o << <<>> >>

\* RoleStorage.formatRoleForInjection(role), the formatter of the role store:
\* every line is pushed on its own, and the lines are joined by line breaks
RoleStorage_formatRoleForInjection(role) ==
    LET sections ==
            << L_Role \o role.name, <<>>, <<>>,
               L_Task, <<>>, <<>>,
               L_Context, <<>>, <<>>,
               L_Rule, <<>>, L_RoleProfile, <<>> >>
         \o (IF populated(role, "area") THEN <<L_Area \o role.area, <<>>>> ELSE <<>>)
         \o (IF populated(role, "description")
                THEN <<L_Description \o role.description, <<>>>> ELSE <<>>)
         \o (IF populated(role, "skills")
                THEN pushedItems(SubSeq(L_Skills, 1, Len(L_Skills) - 1), role.skills)
                ELSE <<>>)
         \o (IF populated(role, "tools")
                THEN pushedItems(SubSeq(L_Tools, 1, Len(L_Tools) - 1), role.tools)
                ELSE <<>>)
         \o (IF populated(role, "constraints")
                THEN pushedItems(SubSeq(L_Constraints, 1, Len(L_Constraints) - 1),
                                 role.constraints)
                ELSE <<>>)
         \o (IF populated(role, "behavior")
                THEN <<L_Behavior \o role.behavior, <<>>>> ELSE <<>>)
         \o (IF populated(role, "moreInfo") THEN <<L_MoreInfo \o role.moreInfo>> ELSE <<>>)
    IN  join(sections, NL)

\* two stored roles: one with an area and a skill, one with a name only
RoleA ==
    [id |-> "role_1", name |-> <<"D", "e", "v">>, area |-> <<"E", "n", "g">>,
     description |-> <<>>, skills |-> << <<"j", "s">> >>, tools |-> <<>>,
     constraints |-> <<>>, behavior |-> <<>>, moreInfo |-> <<>>]

RoleB ==
    [id |-> "role_2", name |-> <<"O", "p", "s">>, area |-> <<>>,
     description |-> <<>>, skills |-> <<>>, tools |-> <<>>,
     constraints |-> <<>>, behavior |-> <<>>, moreInfo |-> <<>>]

(***************************************************************************)
(* Bounds of the model and constants of the program                        *)
(***************************************************************************)

\* setInterval period of the search, in milliseconds
PollIntervalMs ==
    1000

\* delay of the timer that stops the search, in milliseconds
PollTimeoutMs ==
    30000

\* interval firings that are due no later than the stop timer
MaxPollTicks ==
    PollTimeoutMs \div PollIntervalMs

\* URL changes of one page load
MaxNav ==
    3

\* input elements the page creates during one page load
MaxEl ==
    2

\* writes to the storage areas by other contexts during one page load
MaxWrites ==
    1

\* merges into one element
MaxInject ==
    1

\* firings of an interval that are told apart at the start of a search: the
\* firings after them, up to the last but one, miss the element in one step
MaxWait ==
    1

\* fragments concatenated into a hostname
MaxFrags ==
    2

\* items of a sequence field (skills, tools, constraints) of a formatted role
MaxItems ==
    2

\* the size below which a role list is written to chrome.storage.sync, in bytes
SYNC_QUOTA_BYTES ==
    102400

\* bytes one stored role takes in the serialised list
RoleBytes ==
    60000

\* roles of a stored list
MaxStored ==
    2

\* the latest value of Date.now()
MaxClock ==
    2

\* calls of the role store in one run
MaxCalls ==
    3

\* delay before a new dropdown gets its open class, in milliseconds
OpenDelayMs ==
    10

\* delay before the outside-click listener of a new dropdown is registered
ListenDelayMs ==
    100

\* delay between the closing of a dropdown and its removal from the document
CloseDelayMs ==
    200

\* button activations of one page
MaxDropdowns ==
    2

\* roles of a list that is grouped by area
MaxListLen ==
    4

\* characters of an existing content or of a new text
MaxTextLen ==
    3

(***************************************************************************)
(* State                                                                   *)
(***************************************************************************)

VARIABLES
    hostname,         \* window.location.hostname, fixed for a page load
    href,             \* window.location.href, as the number of URL changes so far
    currentPlatform,  \* global: key of the detected descriptor, or NoPlatform
    injectionButton,  \* global: "null", or where the button's wrapper went
    promptElement,    \* global: held element (index into elements), 0 for null
    roles,            \* global: the loaded role list
    observerActive,   \* global
    observers,        \* lastUrl of every registered MutationObserver
    listeners,        \* number of registered chrome.storage.onChanged listeners
    inits,            \* initializeInjector calls: due at document ready, or waiting for a storage reply
    timers,           \* scheduled one-second timers in the order they are due
    attached,         \* the element of the page the input selector matches, 0 for none
    elements,         \* every input element the page has created
    syncStore,        \* agentique_roles in chrome.storage.sync
    localStore,       \* agentique_roles in chrome.storage.local
    pendingChanges,   \* onChanged notifications not yet dispatched
    writes,           \* number of writes other contexts have made so far
    settling,         \* history: torn down out of Ready, and no search started since
    arg,              \* the text argument of setPromptValue: of the call of a merge run, of the last call in a page
    dropdowns,        \* every dropdown element showRoleDropdown has created
    clickListeners,   \* the dropdowns whose closeDropdown is registered on the document
    timeouts,         \* scheduled timeouts of the dropdown, each with the time left
    closeAge,         \* history: time since the last selection or outside click, -1 after an activation
    call,             \* history of a run of the role store alone: its last call that has completed, with its outcome and its number
    clock,            \* the latest value Date.now() has returned
    deleted,          \* history of a run of the role store alone: the ids deleteRole has reported as deleted
    screen,           \* popup: what initializeApp has rendered
    currentRoles,     \* popup: the role list of the home screen
    editor,           \* popup: the role editor modal, and the role it was opened with
    ui,               \* popup: the last click handler that has run, with the typed name, its outcome and its number
    subscribers,      \* the callbacks onRolesChanged has registered and not removed
    received,         \* for every callback, the value of its last call
    message,          \* background: the last runtime message, and what became of it
    thrown,           \* history: a click handler of the engine has thrown an error nothing catches
    pc                \* the kind of run, and for a single call whether it is done

vars ==
    <<hostname, href, currentPlatform, injectionButton, promptElement, roles,
      observerActive, observers, listeners, inits, timers, attached, elements,
      syncStore, localStore, pendingChanges, writes, settling, arg,
      dropdowns, clickListeners, timeouts, closeAge, call, clock, deleted,
      screen, currentRoles, editor, ui, subscribers, received, message, thrown, pc>>

globalVars ==
    <<currentPlatform, injectionButton, promptElement, roles, observerActive>>

taskVars ==
    <<observers, listeners, inits, timers>>

menuVars ==
    <<dropdowns, clickListeners, timeouts, closeAge>>

pageVars ==
    <<hostname, href, attached, elements, menuVars>>

\* a run in which every execution context reads the persisted roles once: with
\* the sync-first service in the popup, or its local-only variant
Reading ==
    pc \in {"contexts", "contextsLocalOnly"}

\* no dropdown has been created
MenuAtRest ==
    /\ dropdowns = <<>>
    /\ clickListeners = {}
    /\ timeouts = <<>>
    /\ closeAge = -1

popupVars ==
    <<screen, currentRoles, editor, ui, subscribers, received>>

callVars ==
    <<call, clock, deleted, popupVars, message, thrown>>

storeVars ==
    <<syncStore, localStore, pendingChanges, writes, callVars>>

\* the outcome record before any call of the role store
NoCall ==
    [op |-> "none", data |-> [id |-> <<>>], raised |-> FALSE, returned |-> FALSE,
     role |-> <<>>, generated |-> FALSE, n |-> 0]

\* the callbacks that subscribe to role changes: the popup's, and one of
\* another caller of onRolesChanged
Callbacks ==
    {"app", "other"}

\* the outcome record before any click handler of the popup has run
NoClick ==
    [op |-> "none", text |-> <<>>, rejected |-> FALSE, alerted |-> FALSE,
     attempted |-> FALSE, written |-> {}, n |-> 0]

\* the editor modal when it is not shown
EditorClosed ==
    [open |-> FALSE, role |-> <<>>]

\* the popup document has just been loaded: nothing is rendered or subscribed
PopupAtRest ==
    /\ screen = "loading"
    /\ currentRoles = <<>>
    /\ editor = EditorClosed
    /\ ui = NoClick
    /\ subscribers = {}
    /\ received = [c \in Callbacks |-> <<>>]

\* the service worker has received no message
NoMessage ==
    [type |-> "none", state |-> "none", result |-> "none", replies |-> 0, roles |-> <<>>]

\* the role store has not been called
NoCallYet ==
    /\ call = NoCall
    /\ clock = 1
    /\ deleted = {}
    /\ PopupAtRest
    /\ message = NoMessage
    /\ thrown = FALSE

\* role sequences a storage area holds (absent reads as the empty sequence)
StoredLists ==
    {<<>>, <<RoleA>>}

\* the template of every role of a stored list, rendered once
InjectedText ==
    [r \in {RoleA, RoleB} |-> formatRoleForInjection(r)]

\* hostnames of the modelled page loads: a supported platform and an unsupported one
EngineHosts ==
    {S_grok_com, S_example_com}

\* all sequences over S of length at most n
SeqsUpTo(S, n) ==
    UNION {[1..k -> S] : k \in 0..n}

\* characters of the contents and texts of the merge runs
TextChars ==
    {"a", " ", "\n", "<"}

Texts ==
    SeqsUpTo(TextChars, MaxTextLen)

\* hostname fragments: every host pattern of the table and some other labels
Frags ==
    {S_chat_openai_com, S_chatgpt_com, S_claude_ai, S_gemini_google_com,
     S_grok_com, S_x_com, S_twitter_com, S_example_com, S_www, S_ma}

RECURSIVE concat(_)
concat(parts) ==
    IF parts = <<>> THEN <<>> ELSE Head(parts) \o concat(Tail(parts))

Hostnames ==
    {concat(fs) : fs \in SeqsUpTo(Frags, MaxFrags)}

(***************************************************************************)
(* Helpers of the injector                                                 *)
(***************************************************************************)

RemoveAt(s, i) ==
    SubSeq(s, 1, i - 1) \o SubSeq(s, i + 1, Len(s))

\* findPromptElement(platform): document.querySelector of the platform's input selector
findPromptElement(platform) ==
    IF platform = NoPlatform THEN 0 ELSE attached

\* a slip that mounts a wrapper whether or not a button is already held
showInjectionButtonUnguarded(button, element) ==
    IF element = 0 THEN button
    ELSE IF element = attached THEN "inPage"
    ELSE "offPage"

\* showInjectionButton(): a no-op with a button or without an element; the wrapper
\* is inserted beside the held element, which puts it in the page only if that
\* element is still attached to the page
showInjectionButton(button, element) ==
    IF button # "null" \/ element = 0 THEN button
    ELSE IF element = attached THEN "inPage"
    ELSE "offPage"

\* hideInjectionButton(): removes the wrapper and forgets the button
hideInjectionButton ==
    "null"

\* the poll callback's "if (roles.length > 0) showInjectionButton()"
buttonAfterFound(button, element, loaded) ==
    IF loaded # <<>> THEN showInjectionButton(button, element) ELSE button

\* the count of firings after one more miss: the misses between firing MaxWait
\* and the last firing before the stop timer is due are taken together
AgeAfterMiss(n) ==
    IF n = MaxWait /\ MaxWait < MaxPollTicks - 1 THEN MaxPollTicks - 1 ELSE n + 1

\* a scheduled waitForPrompt interval: n firings so far, hit once it has found
\* the element, fired once its stop timer has fired
Interval(n) ==
    [kind |-> "interval", n |-> n, hit |-> FALSE, fired |-> FALSE]

\* a scheduled setTimeout(initializeInjector, 1000)
SettleTimer ==
    [kind |-> "settle", n |-> 0, hit |-> FALSE, fired |-> FALSE]

\* clearInterval(waitForPrompt) in the poll callback
timersAfterFound(ts, i) ==
    RemoveAt(ts, i)

\* a slip whose stop timer clears nothing
timersAfterTimeoutNotCleared(ts, i) ==
    [ts EXCEPT ![i].fired = TRUE]

\* setTimeout(() => clearInterval(waitForPrompt), 30000)
timersAfterTimeout(ts, i) ==
    RemoveAt(ts, i)

\* setInterval(..., 1000) and its stop timer, as created by initializeInjector:
\* the new interval is due after every timer already scheduled
StartPoll(ts) ==
    Append(ts, Interval(0))

\* the scheduled intervals
polls ==
    SelectSeq(timers, LAMBDA t : t.kind = "interval")

\* the storage listener's body after roles = newValue || []: show or hide
buttonAfterChange(button, element, newRoles) ==
    IF newRoles # <<>> /\ button = "null" THEN showInjectionButton(button, element)
    ELSE IF newRoles = <<>> /\ button # "null" THEN hideInjectionButton
    ELSE button

\* number of merges an element has received
MergesOf(el) ==
    Cardinality({k \in DOMAIN el.log : el.log[k] = "input"})

(***************************************************************************)
(* The page's life: handlers of the injector and steps of its environment  *)
(***************************************************************************)

\* a slip that goes on to load roles and poll without a platform
initsAfterDetectNoReturn(platform) ==
    [inits EXCEPT !.awaitSync = @ + 1]

\* initializeInjector up to its first await: return when no platform is detected,
\* else issue loadRoles' read of the sync area
initsAfterDetect(platform) ==
    IF platform = NoPlatform THEN inits ELSE [inits EXCEPT !.awaitSync = @ + 1]

\* initializeInjector is entered at document ready
InitStart ==
    /\ pc = "page"
    /\ inits.ready > 0
    /\ currentPlatform' = detectPlatform(hostname)
    /\ inits' = [initsAfterDetect(detectPlatform(hostname)) EXCEPT !.ready = 0]
    /\ UNCHANGED <<injectionButton, promptElement, roles, observerActive,
                   observers, listeners, timers, settling, arg, pc>>
    /\ UNCHANGED <<pageVars, storeVars>>

\* a settle timer is the next timer due: initializeInjector is entered
SettleTimerFires ==
    /\ pc = "page"
    /\ timers # <<>>
    /\ timers[1].kind = "settle"
    /\ timers' = Tail(timers)
    /\ currentPlatform' = detectPlatform(hostname)
    /\ inits' = initsAfterDetect(detectPlatform(hostname))
    /\ UNCHANGED <<injectionButton, promptElement, roles, observerActive,
                   observers, listeners, settling, arg, pc>>
    /\ UNCHANGED <<pageVars, storeVars>>

\* loadRoles resumes from chrome.storage.sync.get: on a rejection roles = [] and
\* the search starts; on an empty result the local area is read next
SyncGetReturns(ok) ==
    /\ pc = "page" \/ Reading
    /\ inits.awaitSync > 0
    /\ roles' = IF ok THEN syncStore ELSE <<>>
    /\ IF ok /\ syncStore = <<>>
       THEN /\ inits' = [inits EXCEPT !.awaitSync = @ - 1, !.awaitLocal = @ + 1]
            /\ UNCHANGED <<timers, settling>>
       ELSE /\ inits' = [inits EXCEPT !.awaitSync = @ - 1]
            /\ timers' = StartPoll(timers)
            /\ settling' = FALSE
    /\ UNCHANGED <<currentPlatform, injectionButton, promptElement, observerActive,
                   observers, listeners, arg, pc>>
    /\ UNCHANGED <<pageVars, storeVars>>

\* loadRoles resumes from chrome.storage.local.get, then the search starts
LocalGetReturns(ok) ==
    /\ pc = "page" \/ Reading
    /\ inits.awaitLocal > 0
    /\ roles' = IF ok THEN localStore ELSE <<>>
    /\ inits' = [inits EXCEPT !.awaitLocal = @ - 1]
    /\ timers' = StartPoll(timers)
    /\ settling' = FALSE
    /\ UNCHANGED <<currentPlatform, injectionButton, promptElement, observerActive,
                   observers, listeners, arg, pc>>
    /\ UNCHANGED <<pageVars, storeVars>>

\* one firing of a waitForPrompt interval.  The intervals and the settle timers
\* share the delay PollIntervalMs, so they fire in the order they were
\* scheduled: the head of timers fires, and an interval is then due last.
\* Firing k is due at k * PollIntervalMs, the stop timer at PollTimeoutMs: a
\* firing past MaxPollTicks needs the stop timer to have fired without clearing
\* the interval
PollTick ==
    /\ pc = "page"
    /\ timers # <<>>
    /\ timers[1].kind = "interval"
    /\ timers[1].n < MaxPollTicks \/ (timers[1].fired /\ timers[1].n <= MaxPollTicks)
    /\ LET found == findPromptElement(currentPlatform)
       IN  /\ promptElement' = found
           /\ IF found # 0
              THEN /\ timers' = timersAfterFound(timers, 1)
                   /\ injectionButton' = buttonAfterFound(injectionButton, found, roles)
                   \* setupMonitoring()
                   /\ IF observerActive
                      THEN UNCHANGED <<observers, listeners, observerActive>>
                      ELSE /\ observers' = Append(observers, href)
                           /\ listeners' = listeners + 1
                           /\ observerActive' = TRUE
              ELSE /\ timers' = Append(Tail(timers),
                                       [timers[1] EXCEPT !.n = AgeAfterMiss(@)])
                   /\ UNCHANGED <<injectionButton, observers, listeners, observerActive>>
    /\ UNCHANGED <<currentPlatform, roles, inits, settling, arg, pc>>
    /\ UNCHANGED <<pageVars, storeVars>>

\* the stop timer of an interval fires: due after firing MaxPollTicks - 1 and
\* before firing MaxPollTicks + 1
PollTimeout(i) ==
    /\ pc = "page"
    /\ i \in 1..Len(timers)
    /\ timers[i].kind = "interval"
    /\ ~timers[i].fired
    /\ timers[i].n >= MaxPollTicks - 1
    /\ timers' = timersAfterTimeout(timers, i)
    /\ UNCHANGED <<globalVars, observers, listeners, inits, settling, arg, pc>>
    /\ UNCHANGED <<pageVars, storeVars>>

\* the page changes its URL without a reload (history.pushState)
Navigate ==
    /\ pc = "page"
    /\ href < MaxNav
    /\ href' = href + 1
    /\ UNCHANGED <<hostname, attached, elements, menuVars>>
    /\ UNCHANGED <<globalVars, taskVars, storeVars, settling, arg, pc>>

\* observers whose lastUrl differs from the current URL
StaleObservers ==
    {k \in 1..Len(observers) : observers[k] # href}

\* a DOM mutation is delivered to every registered MutationObserver; each one
\* that sees a new URL tears down and schedules initializeInjector
DomMutation ==
    /\ pc = "page"
    /\ StaleObservers # {}
    /\ observers' = [k \in 1..Len(observers) |-> href]
    /\ injectionButton' = hideInjectionButton
    /\ promptElement' = 0
    /\ observerActive' = FALSE
    /\ timers' = timers \o [k \in 1..Cardinality(StaleObservers) |-> SettleTimer]
    /\ settling' = (settling \/ promptElement # 0)
    /\ UNCHANGED <<currentPlatform, roles, listeners, inits, arg, pc>>
    /\ UNCHANGED <<pageVars, storeVars>>

\* the page renders an input element that the selector matches
PageAddsInput ==
    /\ pc = "page"
    /\ attached = 0
    /\ Len(elements) < MaxEl
    /\ LET p == detectPlatform(hostname)
           kind == IF p = NoPlatform THEN "textarea" ELSE inputKind(p)
       IN  elements' = Append(elements, NewElement(kind, <<>>))
    /\ attached' = Len(elements) + 1
    /\ UNCHANGED <<hostname, href, menuVars>>
    /\ UNCHANGED <<globalVars, taskVars, storeVars, settling, arg, pc>>

\* the page removes its input element (a re-render, a route without a prompt)
PageRemovesInput ==
    /\ pc = "page"
    /\ attached # 0
    /\ attached' = 0
    /\ UNCHANGED <<hostname, href, elements, menuVars>>
    /\ UNCHANGED <<globalVars, taskVars, storeVars, settling, arg, pc>>

\* another context of the extension writes the role list to a storage area
StorageWrite(area, value) ==
    /\ pc = "page"
    /\ writes < MaxWrites
    /\ writes' = writes + 1
    /\ \/ /\ area = "sync"
          /\ value # syncStore
          /\ syncStore' = value
          /\ localStore' = localStore
       \/ /\ area = "local"
          /\ value # localStore
          /\ localStore' = value
          /\ syncStore' = syncStore
    /\ pendingChanges' = Append(pendingChanges, value)
    /\ UNCHANGED <<globalVars, taskVars, pageVars, callVars, settling, arg, pc>>

\* chrome.storage.onChanged is dispatched to the registered listeners: each sets
\* roles = newValue || [] and shows or hides the button (whatever the area)
DeliverChange ==
    /\ pc = "page"
    /\ pendingChanges # <<>>
    /\ pendingChanges' = Tail(pendingChanges)
    /\ IF listeners > 0
       THEN /\ roles' = Head(pendingChanges)
            /\ injectionButton' =
                   buttonAfterChange(injectionButton, promptElement, Head(pendingChanges))
       ELSE UNCHANGED <<roles, injectionButton>>
    /\ UNCHANGED <<currentPlatform, promptElement, observerActive, taskVars,
                   pageVars, syncStore, localStore, writes, callVars, settling, arg, pc>>

\* the user opens the dropdown of the button shown in the page and picks role k:
\* injectRole(role) = setPromptValue(formatRoleForInjection(role)), which returns
\* at once when no element is held
InjectRole(k) ==
    /\ pc = "page"
    /\ injectionButton = "inPage"
    /\ k \in 1..Len(roles)
    /\ IF promptElement = 0
       THEN elements' = elements
       ELSE /\ MergesOf(elements[promptElement]) < MaxInject
            /\ elements' = [elements EXCEPT ![promptElement] =
                   setPromptValue(@, currentPlatform, InjectedText[roles[k]])]
    /\ arg' = InjectedText[roles[k]]
    /\ UNCHANGED <<hostname, href, attached, menuVars>>
    /\ UNCHANGED <<globalVars, taskVars, storeVars, settling, pc>>

\* the content script has just been loaded into a page: nothing is held, the
\* call of initializeInjector at document ready is pending
Init ==
    /\ pc = "page"
    /\ hostname \in EngineHosts
    /\ href = 0
    /\ currentPlatform = NoPlatform
    /\ injectionButton = "null"
    /\ promptElement = 0
    /\ roles = <<>>
    /\ observerActive = FALSE
    /\ observers = <<>>
    /\ listeners = 0
    /\ inits = [ready |-> 1, awaitSync |-> 0, awaitLocal |-> 0]
    /\ timers = <<>>
    /\ attached = 0
    /\ elements = <<>>
    /\ syncStore \in StoredLists
    /\ localStore \in StoredLists
    /\ pendingChanges = <<>>
    /\ writes = 0
    /\ settling = FALSE
    /\ arg = <<>>
    /\ MenuAtRest
    /\ NoCallYet

Next ==
    \/ InitStart
    \/ SettleTimerFires
    \/ \E ok \in BOOLEAN : SyncGetReturns(ok)
    \/ \E ok \in BOOLEAN : LocalGetReturns(ok)
    \/ PollTick
    \/ \E i \in 1..Len(timers) : PollTimeout(i)
    \/ Navigate
    \/ DomMutation
    \/ PageAddsInput
    \/ PageRemovesInput
    \/ \E area \in {"sync", "local"}, value \in StoredLists : StorageWrite(area, value)
    \/ DeliverChange
    \/ \E k \in 1..Len(roles) : InjectRole(k)

Spec ==
    Init /\ [][Next]_vars

\* loadRoles() with both reads succeeding: the sync list, or the local list when
\* the sync list is empty
loadRoles(sync, local) ==
    IF sync # <<>> THEN sync ELSE local

\* the same page under its scheduling: a pending call, a returned read, a due
\* timer and a dispatched notification each run in the end; what the page, its
\* user and the other contexts do is left free
EngineRuns ==
    /\ WF_vars(InitStart)
    /\ WF_vars(SettleTimerFires)
    /\ WF_vars(\E ok \in BOOLEAN : SyncGetReturns(ok))
    /\ WF_vars(\E ok \in BOOLEAN : LocalGetReturns(ok))
    /\ WF_vars(PollTick)
    /\ WF_vars(\E i \in 1..Len(timers) : PollTimeout(i))
    /\ WF_vars(DeliverChange)

SpecLive ==
    Spec /\ EngineRuns

(***************************************************************************)
(* Single calls: detectPlatform on a hostname, setPromptValue on a surface *)
(***************************************************************************)

\* nothing of the engine is running and the page has no storage traffic
EngineAtRest ==
    /\ href = 0
    /\ injectionButton = "null"
    /\ roles = <<>>
    /\ observerActive = FALSE
    /\ observers = <<>>
    /\ listeners = 0
    /\ inits = [ready |-> 0, awaitSync |-> 0, awaitLocal |-> 0]
    /\ timers = <<>>
    /\ syncStore = <<>>
    /\ localStore = <<>>
    /\ pendingChanges = <<>>
    /\ writes = 0
    /\ settling = FALSE
    /\ MenuAtRest
    /\ NoCallYet

\* a page on any hostname, before detectPlatform is called
InitDetect ==
    /\ pc = "detect"
    /\ hostname \in Hostnames
    /\ currentPlatform = NoPlatform
    /\ promptElement = 0
    /\ attached = 0
    /\ elements = <<>>
    /\ arg = <<>>
    /\ EngineAtRest

\* currentPlatform = detectPlatform()
Detect ==
    /\ pc = "detect"
    /\ currentPlatform' = detectPlatform(hostname)
    /\ pc' = "detected"
    /\ UNCHANGED <<injectionButton, promptElement, roles, observerActive, arg, settling>>
    /\ UNCHANGED <<taskVars, pageVars, storeVars>>

NextDetect ==
    Detect

SpecDetect ==
    InitDetect /\ [][NextDetect]_vars

\* hostnames of the pages of the merge runs: a content-editable platform and a
\* plain-field one
MergeHosts ==
    {S_claude_ai, S_grok_com}

\* the engine holds the page's input element, which already has some content,
\* and setPromptValue is about to be called with arg
InitMerge ==
    /\ pc = "merge"
    /\ hostname \in MergeHosts
    /\ currentPlatform = detectPlatform(hostname)
    /\ promptElement = 1
    /\ attached = 1
    /\ \E existing \in Texts :
           elements = <<NewElement(inputKind(currentPlatform), existing)>>
    /\ arg \in Texts
    /\ EngineAtRest

\* setPromptValue(arg)
Merge ==
    /\ pc = "merge"
    /\ promptElement # 0
    /\ elements' = [elements EXCEPT ![promptElement] =
                        setPromptValue(@, currentPlatform, arg)]
    /\ pc' = "merged"
    /\ UNCHANGED <<hostname, href, attached, menuVars>>
    /\ UNCHANGED <<globalVars, taskVars, storeVars, arg, settling>>

NextMerge ==
    Merge

SpecMerge ==
    InitMerge /\ [][NextMerge]_vars

\* a hostname of every descriptor
SurfaceHosts ==
    {S_chatgpt_com, S_claude_ai, S_gemini_google_com, S_grok_com}

\* the engine holds an element that the input selector of the detected platform
\* matched, of any kind the selector can match, and setPromptValue is about to
\* be called with arg
InitSurface ==
    /\ pc = "merge"
    /\ hostname \in SurfaceHosts
    /\ currentPlatform = detectPlatform(hostname)
    /\ promptElement = 1
    /\ attached = 1
    /\ \E kind \in promptInputKinds[currentPlatform], existing \in Texts :
           elements = <<NewElement(kind, existing)>>
    /\ arg = <<"a">>
    /\ EngineAtRest

SpecSurface ==
    InitSurface /\ [][NextMerge]_vars

(***************************************************************************)
(* Single calls: formatRoleForInjection on a role                          *)
(***************************************************************************)

\* the sequences of up to MaxItems items a sequence field holds, item k being
\* the letter c followed by k
ItemLists(c) ==
    {[k \in 1..n |-> <<c, ToString(k)>>] : n \in 0..MaxItems}

OptionalFields ==
    {"area", "description", "skills", "tools", "constraints", "behavior", "moreInfo"}

\* role objects with every field defined, empty or populated
FullRoles ==
    [id : {"role_1"}, name : {<<"N">>},
     area : {<<>>, <<"E">>}, description : {<<>>, <<"D">>},
     skills : ItemLists("s"),
     tools : {l \in ItemLists("t") : Len(l) <= 1},
     constraints : {l \in ItemLists("c") : Len(l) <= 1},
     behavior : {<<>>, <<"B">>}, moreInfo : {<<>>, <<"M">>}]

\* role objects: a name, and every optional field undefined, empty or populated
FormatRoles ==
    {[f \in {"id", "name"} \cup D |-> r[f]] : r \in FullRoles, D \in SUBSET OptionalFields}

\* the engine has loaded one role, which is about to be formatted
InitFormat ==
    /\ pc = "format"
    /\ hostname = S_grok_com
    /\ currentPlatform = "GROK"
    /\ promptElement = 0
    /\ attached = 0
    /\ elements = <<>>
    /\ arg = <<>>
    /\ \E r \in FormatRoles : roles = <<r>>
    /\ href = 0
    /\ injectionButton = "null"
    /\ observerActive = FALSE
    /\ observers = <<>>
    /\ listeners = 0
    /\ inits = [ready |-> 0, awaitSync |-> 0, awaitLocal |-> 0]
    /\ timers = <<>>
    /\ syncStore = roles
    /\ localStore = <<>>
    /\ pendingChanges = <<>>
    /\ writes = 0
    /\ settling = FALSE
    /\ MenuAtRest
    /\ NoCallYet

\* a slip that empties the skills it has listed
roleAfterFormatSkillsTaken(role) ==
    IF "skills" \in DOMAIN role THEN [role EXCEPT !.skills = <<>>] ELSE role

\* the role object after formatRoleForInjection(role): the function only reads
\* its fields (map and join build new arrays and strings)
roleAfterFormat(role) ==
    role

\* const formattedText = formatRoleForInjection(role)
Format ==
    /\ pc = "format"
    /\ arg' = formatRoleForInjection(roles[1])
    /\ roles' = <<roleAfterFormat(roles[1])>>
    /\ pc' = "formatted"
    /\ UNCHANGED <<currentPlatform, injectionButton, promptElement, observerActive>>
    /\ UNCHANGED <<taskVars, pageVars, storeVars, settling>>

\* formatRoleForInjection(role) is called once more on the same role object
FormatAgain ==
    /\ pc = "formatted"
    /\ arg' = formatRoleForInjection(roles[1])
    /\ roles' = <<roleAfterFormat(roles[1])>>
    /\ pc' = "formattedAgain"
    /\ UNCHANGED <<currentPlatform, injectionButton, promptElement, observerActive>>
    /\ UNCHANGED <<taskVars, pageVars, storeVars, settling>>

\* RoleStorage.formatRoleForInjection(role), called by a page that loads the store
FormatStored ==
    /\ pc = "format"
    /\ arg' = RoleStorage_formatRoleForInjection(roles[1])
    /\ pc' = "formattedByStore"
    /\ UNCHANGED <<globalVars, taskVars, pageVars, storeVars, settling>>

NextFormat ==
    \/ Format
    \/ FormatAgain
    \/ FormatStored

SpecFormat ==
    InitFormat /\ [][NextFormat]_vars

(***************************************************************************)
(* Single calls: the grouping of a role list by area (showRoleDropdown,    *)
(* renderRoles)                                                            *)
(***************************************************************************)

\* UTF-16 code units of the characters of area names
CodeUnit ==
    ("E" :> 69) @@ ("G" :> 71) @@ ("I" :> 73) @@ ("L" :> 76) @@ ("O" :> 79) @@ ("P" :> 80) @@ ("S" :> 83) @@ ("_" :> 95) @@ ("a" :> 97) @@ ("b" :> 98) @@ ("c" :> 99) @@ ("d" :> 100) @@ ("e" :> 101) @@ ("f" :> 102) @@ ("g" :> 103) @@ ("h" :> 104) @@ ("i" :> 105) @@ ("k" :> 107) @@ ("l" :> 108) @@ ("m" :> 109) @@ ("n" :> 110) @@ ("o" :> 111) @@ ("p" :> 112) @@ ("r" :> 114) @@ ("s" :> 115) @@ ("t" :> 116) @@ ("u" :> 117) @@ ("v" :> 118) @@ ("w" :> 119) @@ ("y" :> 121)

RECURSIVE codeUnitLess(_, _)
\* a sorts before b under Array.prototype.sort without a comparator: the strings
\* are compared code unit by code unit, a proper prefix first
codeUnitLess(a, b) ==
    IF b = <<>> THEN FALSE
    ELSE IF a = <<>> THEN TRUE
    ELSE IF CodeUnit[Head(a)] # CodeUnit[Head(b)] THEN CodeUnit[Head(a)] < CodeUnit[Head(b)]
    ELSE codeUnitLess(Tail(a), Tail(b))

RECURSIVE sort(_)
\* Array.prototype.sort() of a set of distinct keys, smallest first
sort(keys) ==
    IF keys = {} THEN <<>>
    ELSE LET least == CHOOSE k \in keys : \A other \in keys \ {k} : codeUnitLess(k, other)
         IN  <<least>> \o sort(keys \ {least})

\* the property names every object literal inherits from Object.prototype
ObjectPrototypeKeys ==
    {<<"c","o","n","s","t","r","u","c","t","o","r">>,
     <<"_","_","d","e","f","i","n","e","G","e","t","t","e","r","_","_">>,
     <<"_","_","d","e","f","i","n","e","S","e","t","t","e","r","_","_">>,
     <<"h","a","s","O","w","n","P","r","o","p","e","r","t","y">>,
     <<"_","_","l","o","o","k","u","p","G","e","t","t","e","r","_","_">>,
     <<"_","_","l","o","o","k","u","p","S","e","t","t","e","r","_","_">>,
     <<"i","s","P","r","o","t","o","t","y","p","e","O","f">>,
     <<"p","r","o","p","e","r","t","y","I","s","E","n","u","m","e","r","a","b","l","e">>,
     <<"t","o","S","t","r","i","n","g">>,
     <<"v","a","l","u","e","O","f">>,
     <<"_","_","p","r","o","t","o","_","_">>,
     <<"t","o","L","o","c","a","l","e","S","t","r","i","n","g">>}

\* rolesByArea[area] after the forEach: the roles of that area in list order
rolesOfArea(rs, area) ==
    SelectSeq(rs, LAMBDA r : populated(r, "area") /\ r.area = area)

\* rolesWithoutArea after the forEach: the roles whose area is falsy, in list order
rolesWithoutArea(rs) ==
    SelectSeq(rs, LAMBDA r : ~populated(r, "area"))

\* Object.keys(rolesByArea): the areas the forEach has added
areaKeys(rs) ==
    {rs[k].area : k \in {j \in 1..Len(rs) : populated(rs[j], "area")}}

\* the forEach throws a TypeError: for an area that names an inherited property
\* rolesByArea[role.area] is truthy and has no push
groupingThrows(rs) ==
    \E k \in 1..Len(rs) : populated(rs[k], "area") /\ rs[k].area \in ObjectPrototypeKeys

\* what is appended for one role (a dropdown item, a role card)
Item(role) ==
    [kind |-> "item", text |-> role.name]

\* what is appended for one area (its header)
AreaHeader(area) ==
    [kind |-> "area", text |-> area]

RECURSIVE groupsOf(_, _)
\* the entries of the areas in the given order: each header, then its roles
groupsOf(rs, areas) ==
    IF areas = <<>> THEN <<>>
    ELSE <<AreaHeader(Head(areas))>>
             \o [k \in 1..Len(rolesOfArea(rs, Head(areas))) |->
                    Item(rolesOfArea(rs, Head(areas))[k])]
             \o groupsOf(rs, Tail(areas))

\* the entries showRoleDropdown and renderRoles append for a non-empty list that
\* does not make the grouping throw
renderedEntries(rs) ==
    [k \in 1..Len(rolesWithoutArea(rs)) |-> Item(rolesWithoutArea(rs)[k])]
        \o groupsOf(rs, sort(areaKeys(rs)))

\* area names of the grouped lists: none, two ordinary ones and one that names
\* a property of Object.prototype
GroupAreas ==
    {<<>>, <<"E", "n", "g">>, <<"O", "p", "s">>, <<"c","o","n","s","t","r","u","c","t","o","r">>}

\* the role at place k of a list is named by the k-th letter
RoleNamed(k, area) ==
    [id |-> <<"r", ToString(k)>>, name |-> <<ToString(k)>>, area |-> area]

\* role lists of up to MaxListLen roles
GroupLists ==
    UNION {{[k \in 1..n |-> RoleNamed(k, as[k])] : as \in [1..n -> GroupAreas]} :
           n \in 0..MaxListLen}

\* a page holds a role list that is about to be rendered
InitGroup ==
    /\ pc = "group"
    /\ hostname = S_grok_com
    /\ currentPlatform = "GROK"
    /\ promptElement = 0
    /\ attached = 0
    /\ elements = <<>>
    /\ arg = <<>>
    /\ roles \in GroupLists
    /\ href = 0
    /\ injectionButton = "null"
    /\ observerActive = FALSE
    /\ observers = <<>>
    /\ listeners = 0
    /\ inits = [ready |-> 0, awaitSync |-> 0, awaitLocal |-> 0]
    /\ timers = <<>>
    /\ syncStore = roles
    /\ localStore = <<>>
    /\ pendingChanges = <<>>
    /\ writes = 0
    /\ settling = FALSE
    /\ MenuAtRest
    /\ NoCallYet

\* showRoleDropdown() up to the rendering of the items: an alert for an empty
\* list, a TypeError out of the forEach, or the dropdown with its entries
ShowRoleDropdown ==
    /\ pc = "group"
    /\ IF roles = <<>>
       THEN arg' = <<>> /\ pc' = "alerted"
       ELSE IF groupingThrows(roles)
       THEN arg' = <<>> /\ pc' = "dropdownThrew"
       ELSE arg' = renderedEntries(roles) /\ pc' = "dropdown"
    /\ UNCHANGED <<globalVars, taskVars, pageVars, storeVars, settling>>

\* renderRoles(rolesToRender) of the popup's role list: the empty state, a
\* TypeError after the cards were cleared, or the cards and headers
RenderRoles ==
    /\ pc = "group"
    /\ IF roles = <<>>
       THEN arg' = <<>> /\ pc' = "emptyState"
       ELSE IF groupingThrows(roles)
       THEN arg' = <<>> /\ pc' = "listThrew"
       ELSE arg' = renderedEntries(roles) /\ pc' = "list"
    /\ UNCHANGED <<globalVars, taskVars, pageVars, storeVars, settling>>

NextGroup ==
    \/ ShowRoleDropdown
    \/ RenderRoles

SpecGroup ==
    InitGroup /\ [][NextGroup]_vars

(***************************************************************************)
(* The dropdown of a mounted button: activations, selections, outside      *)
(* clicks and the timeouts between them                                    *)
(***************************************************************************)

\* document.getElementById('agentique-role-dropdown'): the dropdowns in the document
inDocument(dds) ==
    {d \in 1..Len(dds) : dds[d].inDocument}

\* dropdown.classList.remove('agentique-dropdown--open') on each dropdown of ds
closed(dds, ds) ==
    [d \in 1..Len(dds) |-> IF d \in ds THEN [dds[d] EXCEPT !.open = FALSE] ELSE dds[d]]

\* element.remove() on each dropdown of ds
removed(dds, ds) ==
    [d \in 1..Len(dds) |-> IF d \in ds THEN [dds[d] EXCEPT !.inDocument = FALSE] ELSE dds[d]]

RECURSIVE removals(_)
\* setTimeout(() => dropdown.remove(), 200) for each dropdown of ds, in the
\* order their listeners were registered
removals(ds) ==
    IF ds = {} THEN <<>>
    ELSE LET d == CHOOSE x \in ds : \A y \in ds : x <= y
         IN  <<[kind |-> "remove", dropdown |-> d, left |-> CloseDelayMs]>>
                 \o removals(ds \ {d})

\* the registered closeDropdown listeners that close their dropdown on a click
\* whose target lies in the dropdowns of inside (and not in the button)
closingListeners(inside) ==
    clickListeners \ inside

\* a run of the dropdown: alone, or with the storage listener of setupMonitoring
InMenu ==
    pc \in {"menu", "monitored"}

\* everything of the store, the popup and the service worker but thrown
quietVars ==
    <<syncStore, localStore, pendingChanges, writes, call, clock, deleted,
      popupVars, message>>

\* a page whose button is mounted over a held plain field, with loaded roles
InitMenu ==
    /\ pc = "menu"
    /\ hostname = S_grok_com
    /\ href = 0
    /\ currentPlatform = "GROK"
    /\ injectionButton = "inPage"
    /\ promptElement = 1
    /\ attached = 1
    /\ elements = <<NewElement("textarea", <<>>)>>
    /\ roles \in {<<RoleA>>, <<RoleA, RoleB>>}
    /\ observerActive = TRUE
    /\ observers = <<0>>
    /\ listeners = 1
    /\ inits = [ready |-> 0, awaitSync |-> 0, awaitLocal |-> 0]
    /\ timers = <<>>
    /\ syncStore = roles
    /\ localStore = <<>>
    /\ pendingChanges = <<>>
    /\ writes = 0
    /\ settling = FALSE
    /\ arg = <<>>
    /\ MenuAtRest
    /\ NoCallYet

\* the dropdowns after showRoleDropdown: an existing one is removed, the new one
\* is appended to the button's wrapper
dropdownsAfterShow(dds) ==
    Append(removed(dds, inDocument(dds)), [inDocument |-> TRUE, open |-> FALSE])

\* handleInjectionClick: the click stops at the button; showRoleDropdown() alerts
\* on an empty role list, throws out of the grouping, or replaces the dropdown and
\* schedules its open class and its outside-click listener
ActivateButton ==
    /\ InMenu
    /\ injectionButton = "inPage"
    /\ Len(dropdowns) < MaxDropdowns
    /\ IF roles = <<>> \/ groupingThrows(roles)
       THEN UNCHANGED <<dropdowns, timeouts>>
       ELSE /\ dropdowns' = dropdownsAfterShow(dropdowns)
            /\ timeouts' = timeouts \o
                   <<[kind |-> "open", dropdown |-> Len(dropdowns) + 1, left |-> OpenDelayMs],
                     [kind |-> "listen", dropdown |-> Len(dropdowns) + 1, left |-> ListenDelayMs]>>
    /\ closeAge' = -1
    /\ thrown' = (thrown \/ (roles # <<>> /\ groupingThrows(roles)))
    /\ UNCHANGED <<clickListeners, hostname, href, attached, elements>>
    /\ UNCHANGED <<globalVars, taskVars, quietVars, settling, arg, pc>>

\* a click on the item of role k in the dropdown d of the document: the item's
\* handler injects the role and closes the dropdown getElementById finds; the
\* click then reaches the document, where every listener of another dropdown
\* closes its own dropdown and unregisters itself
SelectRole(d, k) ==
    /\ InMenu
    /\ d \in inDocument(dropdowns)
    /\ k \in 1..Len(roles)
    /\ IF promptElement = 0
       THEN elements' = elements
       ELSE /\ MergesOf(elements[promptElement]) < MaxInject
            /\ elements' = [elements EXCEPT ![promptElement] =
                   setPromptValue(@, currentPlatform, InjectedText[roles[k]])]
    /\ arg' = InjectedText[roles[k]]
    /\ dropdowns' = closed(dropdowns, inDocument(dropdowns) \cup closingListeners({d}))
    /\ timeouts' = timeouts \o removals(inDocument(dropdowns))
                            \o removals(closingListeners({d}))
    /\ clickListeners' = clickListeners \ closingListeners({d})
    /\ closeAge' = 0
    /\ UNCHANGED <<hostname, href, attached>>
    /\ UNCHANGED <<globalVars, taskVars, storeVars, settling, pc>>

\* a click on the page outside the dropdown and the button: every registered
\* closeDropdown closes its dropdown, schedules its removal and unregisters
\* itself; when the button has been torn down, injectionButton.contains is read
\* off null and every registered closeDropdown throws instead
OutsideClick ==
    /\ InMenu
    /\ IF injectionButton = "null"
       THEN /\ thrown' = (thrown \/ closingListeners({}) # {})
            /\ UNCHANGED <<dropdowns, timeouts, clickListeners, closeAge>>
       ELSE /\ dropdowns' = closed(dropdowns, closingListeners({}))
            /\ timeouts' = timeouts \o removals(closingListeners({}))
            /\ clickListeners' = clickListeners \ closingListeners({})
            /\ closeAge' = 0
            /\ thrown' = thrown
    /\ UNCHANGED <<hostname, href, attached, elements>>
    /\ UNCHANGED <<globalVars, taskVars, quietVars, settling, arg, pc>>

\* a timeout that is due runs: the open class is added, the outside-click
\* listener is registered, or the dropdown is removed from the document
TimeoutFires(i) ==
    /\ InMenu
    /\ i \in 1..Len(timeouts)
    /\ timeouts[i].left = 0
    /\ timeouts' = [j \in 1..(Len(timeouts) - 1) |->
                       IF j < i THEN timeouts[j] ELSE timeouts[j + 1]]
    /\ dropdowns' =
           IF timeouts[i].kind = "open"
           THEN [dropdowns EXCEPT ![timeouts[i].dropdown].open = TRUE]
           ELSE IF timeouts[i].kind = "remove"
           THEN removed(dropdowns, {timeouts[i].dropdown})
           ELSE dropdowns
    /\ clickListeners' =
           IF timeouts[i].kind = "listen"
           THEN clickListeners \cup {timeouts[i].dropdown}
           ELSE clickListeners
    /\ UNCHANGED <<closeAge, hostname, href, attached, elements>>
    /\ UNCHANGED <<globalVars, taskVars, storeVars, settling, arg, pc>>

\* time passes, in steps of the shortest delay, while no timeout is due
TimePasses ==
    /\ InMenu
    /\ \A i \in 1..Len(timeouts) : timeouts[i].left > 0
    /\ timeouts # <<>> \/ (closeAge >= 0 /\ closeAge <= CloseDelayMs)
    /\ timeouts' = [i \in 1..Len(timeouts) |->
                       [timeouts[i] EXCEPT !.left = @ - OpenDelayMs]]
    /\ closeAge' = IF closeAge >= 0 /\ closeAge <= CloseDelayMs
                   THEN closeAge + OpenDelayMs
                   ELSE closeAge
    /\ UNCHANGED <<dropdowns, clickListeners, hostname, href, attached, elements>>
    /\ UNCHANGED <<globalVars, taskVars, storeVars, settling, arg, pc>>

NextMenu ==
    \/ ActivateButton
    \/ \E d \in 1..Len(dropdowns), k \in 1..Len(roles) : SelectRole(d, k)
    \/ OutsideClick
    \/ \E i \in 1..Len(timeouts) : TimeoutFires(i)
    \/ TimePasses

SpecMenu ==
    InitMenu /\ [][NextMenu]_vars

\* most change notifications the storage listener is given in a run
MaxChanges ==
    2

\* the same page with the storage listener of setupMonitoring at work
InitMonitored ==
    /\ pc = "monitored"
    /\ hostname = S_grok_com
    /\ href = 0
    /\ currentPlatform = "GROK"
    /\ injectionButton = "inPage"
    /\ promptElement = 1
    /\ attached = 1
    /\ elements = <<NewElement("textarea", <<>>)>>
    /\ roles = <<RoleA>>
    /\ observerActive = TRUE
    /\ observers = <<0>>
    /\ listeners = 1
    /\ inits = [ready |-> 0, awaitSync |-> 0, awaitLocal |-> 0]
    /\ timers = <<>>
    /\ syncStore = roles
    /\ localStore = <<>>
    /\ pendingChanges = <<>>
    /\ writes = 0
    /\ settling = FALSE
    /\ arg = <<>>
    /\ MenuAtRest
    /\ NoCallYet

\* the storage listener of setupMonitoring is given a change of the role list:
\* roles = newValue || [], then the button is shown when roles came and none is
\* held, or hidden when none are left; hiding removes the wrapper, and with it
\* the dropdown inside, from the document
RolesChanged(value) ==
    /\ pc = "monitored"
    /\ writes < MaxChanges
    /\ value # roles
    /\ writes' = writes + 1
    /\ syncStore' = value
    /\ roles' = value
    /\ injectionButton' = buttonAfterChange(injectionButton, promptElement, value)
    /\ dropdowns' = IF buttonAfterChange(injectionButton, promptElement, value) = "null"
                    THEN removed(dropdowns, inDocument(dropdowns))
                    ELSE dropdowns
    /\ UNCHANGED <<clickListeners, timeouts, closeAge, hostname, href, attached, elements>>
    /\ UNCHANGED <<currentPlatform, promptElement, observerActive, taskVars,
                   localStore, pendingChanges, callVars, settling, arg, pc>>

NextMonitored ==
    \/ NextMenu
    \/ \E value \in {<<>>, <<RoleA>>} : RolesChanged(value)

SpecMonitored ==
    InitMonitored /\ [][NextMonitored]_vars

(***************************************************************************)
(* The role store: saveRole and deleteRole over chrome.storage, in the     *)
(* sync-first service and in its local-only variant                        *)
(***************************************************************************)

\* outcomes of Math.random().toString(36).substr(2, 9)
Randoms ==
    {"a", "b"}

\* generateId() at time now with the random suffix rnd
generateId(now, rnd) ==
    <<"role_", ToString(now), "_", rnd>>

\* createdAt or updatedAt of the data when truthy, else now
timeOr(data, f, now) ==
    IF f \in DOMAIN data /\ data[f] # 0 THEN data[f] ELSE now

\* createRole(data): every field from the data when truthy, else its default
createRole(data, now, rnd) ==
    [id          |-> IF populated(data, "id") THEN data.id ELSE generateId(now, rnd),
     name        |-> IF populated(data, "name") THEN data.name ELSE <<>>,
     area        |-> IF populated(data, "area") THEN data.area ELSE <<>>,
     description |-> IF populated(data, "description") THEN data.description ELSE <<>>,
     skills      |-> IF populated(data, "skills") THEN data.skills ELSE <<>>,
     tools       |-> IF populated(data, "tools") THEN data.tools ELSE <<>>,
     constraints |-> IF populated(data, "constraints") THEN data.constraints ELSE <<>>,
     behavior    |-> IF populated(data, "behavior") THEN data.behavior ELSE <<>>,
     moreInfo    |-> IF populated(data, "moreInfo") THEN data.moreInfo ELSE <<>>,
     createdAt   |-> timeOr(data, "createdAt", now),
     updatedAt   |-> timeOr(data, "updatedAt", now)]

\* fitsInSync({agentique_roles: list}): the serialised size is below the quota
fitsInSync(list) ==
    Len(list) * RoleBytes < SYNC_QUOTA_BYTES

\* getAllRoles() of the sync-first service: getStorageArea() answers sync when
\* sync.get succeeds (what it returned holds the key or is small) and local when
\* it throws; a failing read of that area is caught and reads as no roles
getAllRoles(areaOk, readOk) ==
    IF ~readOk THEN <<>>
    ELSE IF areaOk THEN syncStore
    ELSE localStore

\* getAllRoles() of the local-only variant: a failing or late read is caught
\* and reads as no roles
LocalOnly_getAllRoles(readOk) ==
    IF readOk THEN localStore ELSE <<>>

\* roles.findIndex(r => r.id === roleData.id), 0 for -1
findIndex(list, data) ==
    IF "id" \in DOMAIN data /\ \E k \in 1..Len(list) : list[k].id = data.id
    THEN CHOOSE k \in 1..Len(list) :
             /\ list[k].id = data.id
             /\ \A j \in 1..(k - 1) : list[j].id # data.id
    ELSE 0

\* { ...old, ...roleData, updatedAt: Date.now() }
updatedRole(old, data, now) ==
    [f \in DOMAIN old \cup DOMAIN data \cup {"updatedAt"} |->
        IF f = "updatedAt" THEN now
        ELSE IF f \in DOMAIN data THEN data[f]
        ELSE old[f]]

\* the role saveRole returns for a list it has read
savedRole(list, data, now, rnd) ==
    IF findIndex(list, data) > 0
    THEN updatedRole(list[findIndex(list, data)], data, now)
    ELSE createRole(data, now, rnd)

\* the list saveRole writes: the role replaces its match or is pushed
savedList(list, data, now, rnd) ==
    IF findIndex(list, data) > 0
    THEN [list EXCEPT ![findIndex(list, data)] = savedRole(list, data, now, rnd)]
    ELSE Append(list, savedRole(list, data, now, rnd))

\* roles.filter(r => r.id !== id)
filteredRoles(list, id) ==
    SelectSeq(list, LAMBDA r : r.id # id)

\* the ids of the roles of a list
idsOf(list) ==
    {list[k].id : k \in 1..Len(list)}

\* an id no call has generated
ForeignId ==
    <<"x">>

\* names of the saved role data
SavedNames ==
    {<<"A">>}

\* the role data saveRole is called with: without an id, or with the id of a
\* stored role or a foreign one, and then with or without a name
SaveInputs ==
    {[name |-> n] : n \in SavedNames}
        \cup {[id |-> i, name |-> n] :
                 i \in idsOf(syncStore) \cup idsOf(localStore) \cup {ForeignId},
                 n \in SavedNames}
        \cup {[id |-> i] : i \in idsOf(syncStore) \cup idsOf(localStore) \cup {ForeignId}}

\* the popup of a fresh install, with the sync-first service or its local-only
\* variant loaded
InitStore ==
    /\ pc \in {"roleStorage", "roleStorageLocalOnly"}
    /\ hostname = S_grok_com
    /\ currentPlatform = NoPlatform
    /\ promptElement = 0
    /\ attached = 0
    /\ elements = <<>>
    /\ arg = <<>>
    /\ EngineAtRest

\* saveRole(roleData) of the sync-first service: the list is written to sync when
\* it fits, and to local when it does not fit or the sync write throws; a failing
\* local write raises
SaveRole(data, areaOk, readOk, syncSetOk, localSetOk, now, rnd) ==
    /\ pc \in {"roleStorage", "background"}
    /\ call.n < MaxCalls
    /\ now >= clock
    /\ LET read   == getAllRoles(areaOk, readOk)
           list   == savedList(read, data, now, rnd)
           toSync == fitsInSync(list) /\ syncSetOk
       IN  /\ Len(list) <= MaxStored
           /\ syncStore' = IF toSync THEN list ELSE syncStore
           /\ localStore' = IF ~toSync /\ localSetOk THEN list ELSE localStore
           /\ call' = [op        |-> "saveRole",
                       data      |-> data,
                       raised    |-> ~toSync /\ ~localSetOk,
                       returned  |-> FALSE,
                       role      |-> IF ~toSync /\ ~localSetOk
                                     THEN <<>>
                                     ELSE <<savedRole(read, data, now, rnd)>>,
                       generated |-> findIndex(read, data) = 0 /\ ~populated(data, "id"),
                       n         |-> call.n + 1]
    /\ clock' = now
    /\ UNCHANGED <<pendingChanges, writes, deleted, popupVars, message, thrown>>
    /\ UNCHANGED <<globalVars, taskVars, pageVars, settling, arg, pc>>

\* deleteRole(id) of the sync-first service: false when the list it read has no
\* such role; else the filtered list is written to sync (errors ignored) and to
\* local (an error raises)
DeleteRole(id, areaOk, readOk, syncSetOk, localSetOk) ==
    /\ pc \in {"roleStorage", "background"}
    /\ call.n < MaxCalls
    /\ LET read  == getAllRoles(areaOk, readOk)
           found == Len(filteredRoles(read, id)) # Len(read)
       IN  /\ syncStore' = IF found /\ syncSetOk THEN filteredRoles(read, id) ELSE syncStore
           /\ localStore' = IF found /\ localSetOk THEN filteredRoles(read, id) ELSE localStore
           /\ call' = [op        |-> "deleteRole",
                       data      |-> [id |-> id],
                       raised    |-> found /\ ~localSetOk,
                       returned  |-> found /\ localSetOk,
                       role      |-> <<>>,
                       generated |-> FALSE,
                       n         |-> call.n + 1]
           /\ deleted' = IF found /\ localSetOk THEN deleted \cup {id} ELSE deleted
    /\ UNCHANGED <<pendingChanges, writes, clock, popupVars, message, thrown>>
    /\ UNCHANGED <<globalVars, taskVars, pageVars, settling, arg, pc>>

\* saveRole(roleData) of the local-only variant: a failing or late write raises
LocalOnly_SaveRole(data, readOk, setOk, now, rnd) ==
    /\ pc \in {"roleStorageLocalOnly", "backgroundLocalOnly"}
    /\ call.n < MaxCalls
    /\ now >= clock
    /\ LET read == LocalOnly_getAllRoles(readOk)
           list == savedList(read, data, now, rnd)
       IN  /\ Len(list) <= MaxStored
           /\ localStore' = IF setOk THEN list ELSE localStore
           /\ call' = [op        |-> "saveRole",
                       data      |-> data,
                       raised    |-> ~setOk,
                       returned  |-> FALSE,
                       role      |-> IF setOk THEN <<savedRole(read, data, now, rnd)>> ELSE <<>>,
                       generated |-> findIndex(read, data) = 0 /\ ~populated(data, "id"),
                       n         |-> call.n + 1]
    /\ clock' = now
    /\ UNCHANGED <<syncStore, pendingChanges, writes, deleted, popupVars, message, thrown>>
    /\ UNCHANGED <<globalVars, taskVars, pageVars, settling, arg, pc>>

\* deleteRole(id) of the local-only variant: false when the list it read has no
\* such role or the write fails, else true
LocalOnly_DeleteRole(id, readOk, setOk) ==
    /\ pc \in {"roleStorageLocalOnly", "backgroundLocalOnly"}
    /\ call.n < MaxCalls
    /\ LET read  == LocalOnly_getAllRoles(readOk)
           found == Len(filteredRoles(read, id)) # Len(read)
       IN  /\ localStore' = IF found /\ setOk THEN filteredRoles(read, id) ELSE localStore
           /\ call' = [op        |-> "deleteRole",
                       data      |-> [id |-> id],
                       raised    |-> FALSE,
                       returned  |-> found /\ setOk,
                       role      |-> <<>>,
                       generated |-> FALSE,
                       n         |-> call.n + 1]
           /\ deleted' = IF found /\ setOk THEN deleted \cup {id} ELSE deleted
    /\ UNCHANGED <<syncStore, pendingChanges, writes, clock, popupVars, message, thrown>>
    /\ UNCHANGED <<globalVars, taskVars, pageVars, settling, arg, pc>>

NextStore ==
    \/ \E data \in SaveInputs, areaOk, readOk, syncSetOk, localSetOk \in BOOLEAN,
          now \in clock..MaxClock, rnd \in Randoms :
           SaveRole(data, areaOk, readOk, syncSetOk, localSetOk, now, rnd)
    \/ \E id \in idsOf(syncStore) \cup idsOf(localStore) \cup {ForeignId},
          areaOk, readOk, syncSetOk, localSetOk \in BOOLEAN :
           DeleteRole(id, areaOk, readOk, syncSetOk, localSetOk)
    \/ \E data \in SaveInputs, readOk, setOk \in BOOLEAN,
          now \in clock..MaxClock, rnd \in Randoms :
           LocalOnly_SaveRole(data, readOk, setOk, now, rnd)
    \/ \E id \in idsOf(localStore) \cup {ForeignId}, readOk, setOk \in BOOLEAN :
           LocalOnly_DeleteRole(id, readOk, setOk)

SpecStore ==
    InitStore /\ [][NextStore]_vars

(***************************************************************************)
(* The popup: initializeApp, the home screen with its role editor, and the *)
(* subscriptions to role changes                                           *)
(***************************************************************************)

\* most click handlers of the popup that run
MaxClicks ==
    2

\* most click handlers of the popup that run when onRolesChanged has another
\* caller
MaxWatchedClicks ==
    1

\* a run of the popup: alone, or with another caller of onRolesChanged
InPopup ==
    pc \in {"popup", "popupLocalOnly", "popupWatched", "popupWatchedLocalOnly"} \/ Reading

\* the popup has loaded the local-only variant of the service
LocalOnlyLoaded ==
    pc \in {"popupLocalOnly", "popupWatchedLocalOnly", "contextsLocalOnly"}

\* onRolesChanged has another caller than the popup
Watched ==
    pc \in {"popupWatched", "popupWatchedLocalOnly"}

\* the bound on click handlers leaves room for one more
ClicksLeft ==
    ui.n < (IF Watched THEN MaxWatchedClicks ELSE MaxClicks)

\* what the user has typed into the name field when Save is clicked
NameTexts ==
    {<<>>, <<" ">>, <<"A">>, <<" ", "A">>}

\* outcomes of the random suffix of generateId() in a run of the popup
PopupRandoms ==
    {"a"}

\* a role another context of the extension has stored
ForeignRole ==
    [id |-> ForeignId, name |-> <<"B">>, area |-> <<>>, description |-> <<>>,
     skills |-> <<>>, tools |-> <<>>, constraints |-> <<>>, behavior |-> <<>>,
     moreInfo |-> <<>>, createdAt |-> 1, updatedAt |-> 1]

\* role sequences the areas hold when the popup is opened
PopupStoredLists ==
    {<<>>, <<ForeignRole>>}

\* changes[STORAGE_KEY].newValue || []: a change is <<list>> when the record was
\* set and <<>> (no newValue) when it was removed
newValueOrEmpty(change) ==
    IF change = <<>> THEN <<>> ELSE change[1]

\* the onChanged notifications of a step that takes the areas to sync and local
changesTo(sync, local) ==
    (IF sync # syncStore THEN << <<sync>> >> ELSE <<>>)
        \o (IF local # localStore THEN << <<local>> >> ELSE <<>>)

\* the roleData of the editor's save click handler: the id of the role the editor
\* was opened with (none for a new role), the trimmed name, and the other fields
\* (left empty here)
roleData(role, text) ==
    LET fields == [name |-> trim(text), area |-> <<>>, description |-> <<>>,
                   skills |-> <<>>, tools |-> <<>>, constraints |-> <<>>,
                   behavior |-> <<>>, moreInfo |-> <<>>]
    IN  IF role = <<>> THEN fields
        ELSE [f \in DOMAIN fields \cup {"id"} |->
                 IF f = "id" THEN role[1].id ELSE fields[f]]

\* a saveRole that answers with the role it built whether or not a write went
\* through
saveAssumedWritten(localOnly, data, areaOk, readOk, syncSetOk, localSetOk, now, rnd) ==
    LET read    == IF localOnly THEN LocalOnly_getAllRoles(readOk)
                   ELSE getAllRoles(areaOk, readOk)
        list    == savedList(read, data, now, rnd)
        toSync  == ~localOnly /\ fitsInSync(list) /\ syncSetOk
        toLocal == ~toSync /\ localSetOk
    IN  [sync      |-> IF toSync THEN list ELSE syncStore,
         local     |-> IF toLocal THEN list ELSE localStore,
         raised    |-> FALSE,
         role      |-> <<savedRole(read, data, now, rnd)>>,
         generated |-> findIndex(read, data) = 0 /\ ~populated(data, "id"),
         attempted |-> TRUE,
         written   |-> (IF toSync THEN {"sync"} ELSE {}) \cup (IF toLocal THEN {"local"} ELSE {}),
         size      |-> Len(list)]

\* saveRole(roleData) of the loaded service: what it leaves in the two areas, and
\* whether it raises or which role it returns
saveOutcome(localOnly, data, areaOk, readOk, syncSetOk, localSetOk, now, rnd) ==
    LET read    == IF localOnly THEN LocalOnly_getAllRoles(readOk)
                   ELSE getAllRoles(areaOk, readOk)
        list    == savedList(read, data, now, rnd)
        toSync  == ~localOnly /\ fitsInSync(list) /\ syncSetOk
        toLocal == ~toSync /\ localSetOk
    IN  [sync      |-> IF toSync THEN list ELSE syncStore,
         local     |-> IF toLocal THEN list ELSE localStore,
         raised    |-> ~toSync /\ ~toLocal,
         role      |-> IF toSync \/ toLocal THEN <<savedRole(read, data, now, rnd)>> ELSE <<>>,
         generated |-> findIndex(read, data) = 0 /\ ~populated(data, "id"),
         attempted |-> TRUE,
         written   |-> (IF toSync THEN {"sync"} ELSE {}) \cup (IF toLocal THEN {"local"} ELSE {}),
         size      |-> Len(list)]

\* deleteRole(id) of the loaded service: what it leaves in the two areas, and
\* whether it raises or what it returns
deleteOutcome(localOnly, id, areaOk, readOk, syncSetOk, localSetOk) ==
    LET read    == IF localOnly THEN LocalOnly_getAllRoles(readOk)
                   ELSE getAllRoles(areaOk, readOk)
        found   == Len(filteredRoles(read, id)) # Len(read)
        toSync  == ~localOnly /\ found /\ syncSetOk
        toLocal == found /\ localSetOk
    IN  [sync      |-> IF toSync THEN filteredRoles(read, id) ELSE syncStore,
         local     |-> IF toLocal THEN filteredRoles(read, id) ELSE localStore,
         raised    |-> ~localOnly /\ found /\ ~localSetOk,
         success   |-> found /\ localSetOk,
         attempted |-> found,
         written   |-> (IF toSync THEN {"sync"} ELSE {}) \cup (IF toLocal THEN {"local"} ELSE {})]

\* the onSave of the home screen for a role handleRoleSave has returned: it
\* replaces the entry with its id or is pushed
rolesAfterSave(list, role) ==
    IF findIndex(list, role) > 0
    THEN [list EXCEPT ![findIndex(list, role)] = role]
    ELSE Append(list, role)

\* what earlier sessions have left in the areas: roles in the area the loaded
\* service reads first, or none
StoredBefore ==
    /\ syncStore \in PopupStoredLists
    /\ localStore \in PopupStoredLists
    /\ LocalOnlyLoaded => syncStore = <<>>
    /\ ~LocalOnlyLoaded => localStore = <<>>

\* the popup is opened, with the sync-first service or its local-only variant
\* loaded, over what earlier sessions have stored
InitPopup ==
    /\ pc \in {"popup", "popupLocalOnly"}
    /\ hostname = S_grok_com
    /\ href = 0
    /\ currentPlatform = NoPlatform
    /\ injectionButton = "null"
    /\ promptElement = 0
    /\ roles = <<>>
    /\ observerActive = FALSE
    /\ observers = <<>>
    /\ listeners = 0
    /\ inits = [ready |-> 0, awaitSync |-> 0, awaitLocal |-> 0]
    /\ timers = <<>>
    /\ attached = 0
    /\ elements = <<>>
    /\ StoredBefore
    /\ pendingChanges = <<>>
    /\ writes = 0
    /\ settling = FALSE
    /\ arg = <<>>
    /\ MenuAtRest
    /\ NoCallYet

\* initializeApp(): the roles getAllRoles answers (none when the read fails) are
\* rendered as the home screen, then the popup subscribes to role changes
InitializeApp(areaOk, readOk) ==
    /\ InPopup
    /\ screen = "loading"
    /\ screen' = "home"
    /\ currentRoles' = IF LocalOnlyLoaded THEN LocalOnly_getAllRoles(readOk)
                       ELSE getAllRoles(areaOk, readOk)
    /\ subscribers' = subscribers \cup {"app"}
    /\ UNCHANGED <<editor, ui, received>>
    /\ UNCHANGED <<syncStore, localStore, pendingChanges, writes, call, clock, deleted, message, thrown>>
    /\ UNCHANGED <<globalVars, taskVars, pageVars, settling, arg, pc>>

\* openRoleEditor(role): for a new role (k = 0) or for the role of card k
OpenEditor(k) ==
    /\ InPopup
    /\ screen = "home"
    /\ ~editor.open
    /\ k \in 0..Len(currentRoles)
    /\ editor' = [open |-> TRUE, role |-> IF k = 0 THEN <<>> ELSE <<currentRoles[k]>>]
    /\ UNCHANGED <<screen, currentRoles, ui, subscribers, received>>
    /\ UNCHANGED <<syncStore, localStore, pendingChanges, writes, call, clock, deleted, message, thrown>>
    /\ UNCHANGED <<globalVars, taskVars, pageVars, settling, arg, pc>>

\* the Cancel button of the editor
EditorCancel ==
    /\ InPopup
    /\ editor.open
    /\ editor' = EditorClosed
    /\ UNCHANGED <<screen, currentRoles, ui, subscribers, received>>
    /\ UNCHANGED <<syncStore, localStore, pendingChanges, writes, call, clock, deleted, message, thrown>>
    /\ UNCHANGED <<globalVars, taskVars, pageVars, settling, arg, pc>>

\* the Save button of the editor: an empty trimmed name marks the field and
\* returns; else onSave(roleData) runs handleRoleSave (saveRole, an alert and
\* null when it raises), the home screen takes the returned role, and the editor
\* hides
EditorSave(text, areaOk, readOk, syncSetOk, localSetOk, now, rnd) ==
    /\ InPopup
    /\ editor.open
    /\ ClicksLeft
    /\ now >= clock
    /\ IF trim(text) = <<>>
       THEN /\ ui' = [op |-> "save", text |-> text, rejected |-> TRUE,
                      alerted |-> FALSE, attempted |-> FALSE, written |-> {},
                      n |-> ui.n + 1]
            /\ UNCHANGED <<syncStore, localStore, pendingChanges, clock,
                           currentRoles, editor>>
       ELSE LET data == roleData(editor.role, text)
                o    == saveOutcome(LocalOnlyLoaded, data, areaOk, readOk,
                                    syncSetOk, localSetOk, now, rnd)
            IN  /\ o.size <= MaxStored
                /\ syncStore' = o.sync
                /\ localStore' = o.local
                /\ pendingChanges' = pendingChanges \o changesTo(o.sync, o.local)
                /\ clock' = now
                /\ currentRoles' = IF o.raised THEN currentRoles
                                   ELSE rolesAfterSave(currentRoles, o.role[1])
                /\ editor' = EditorClosed
                /\ ui' = [op |-> "save", text |-> text, rejected |-> FALSE,
                          alerted |-> o.raised, attempted |-> o.attempted,
                          written |-> o.written, n |-> ui.n + 1]
    /\ UNCHANGED <<screen, subscribers, received, writes, call, deleted, message, thrown>>
    /\ UNCHANGED <<globalVars, taskVars, pageVars, settling, arg, pc>>

\* a confirmed delete of role id: onRoleDelete runs handleRoleDelete (deleteRole,
\* an alert and false when it raises), and the home screen drops the role when
\* the answer is true
deleteClicked(id, areaOk, readOk, syncSetOk, localSetOk) ==
    LET o == deleteOutcome(LocalOnlyLoaded, id, areaOk, readOk, syncSetOk, localSetOk)
    IN  /\ syncStore' = o.sync
        /\ localStore' = o.local
        /\ pendingChanges' = pendingChanges \o changesTo(o.sync, o.local)
        /\ currentRoles' = IF o.success THEN filteredRoles(currentRoles, id)
                           ELSE currentRoles
        /\ ui' = [op |-> "delete", text |-> <<>>, rejected |-> FALSE,
                  alerted |-> o.raised, attempted |-> o.attempted,
                  written |-> o.written, n |-> ui.n + 1]

\* the Delete button of the editor in edit mode, confirmed: the role the editor
\* was opened with is deleted and the editor hides
EditorDelete(areaOk, readOk, syncSetOk, localSetOk) ==
    /\ InPopup
    /\ editor.open
    /\ editor.role # <<>>
    /\ ClicksLeft
    /\ deleteClicked(editor.role[1].id, areaOk, readOk, syncSetOk, localSetOk)
    /\ editor' = EditorClosed
    /\ UNCHANGED <<screen, subscribers, received, writes, call, clock, deleted, message, thrown>>
    /\ UNCHANGED <<globalVars, taskVars, pageVars, settling, arg, pc>>

\* the delete button of card k of the role list, confirmed
CardDelete(k, areaOk, readOk, syncSetOk, localSetOk) ==
    /\ InPopup
    /\ screen = "home"
    /\ ~editor.open
    /\ k \in 1..Len(currentRoles)
    /\ ClicksLeft
    /\ deleteClicked(currentRoles[k].id, areaOk, readOk, syncSetOk, localSetOk)
    /\ UNCHANGED <<screen, editor, subscribers, received, writes, call, clock, deleted, message, thrown>>
    /\ UNCHANGED <<globalVars, taskVars, pageVars, settling, arg, pc>>

\* another context of the extension sets the record of an area to a list, or
\* removes it (change = <<>>)
OtherContextWrites(area, change) ==
    /\ InPopup
    /\ writes < MaxWrites
    /\ writes' = writes + 1
    /\ \/ /\ area = "sync"
          /\ newValueOrEmpty(change) # syncStore
          /\ syncStore' = newValueOrEmpty(change)
          /\ localStore' = localStore
       \/ /\ area = "local"
          /\ newValueOrEmpty(change) # localStore
          /\ localStore' = newValueOrEmpty(change)
          /\ syncStore' = syncStore
    /\ pendingChanges' = Append(pendingChanges, change)
    /\ UNCHANGED <<globalVars, taskVars, pageVars, callVars, settling, arg, pc>>

\* onRolesChanged(callback) by another caller
Subscribe(c) ==
    /\ InPopup
    /\ Watched
    /\ c \notin subscribers
    /\ c # "app"
    /\ subscribers' = subscribers \cup {c}
    /\ UNCHANGED <<screen, currentRoles, editor, ui, received>>
    /\ UNCHANGED <<syncStore, localStore, pendingChanges, writes, call, clock, deleted, message, thrown>>
    /\ UNCHANGED <<globalVars, taskVars, pageVars, settling, arg, pc>>

\* the function onRolesChanged returned is called (the popup never calls its own)
Unsubscribe(c) ==
    /\ InPopup
    /\ Watched
    /\ c \in subscribers
    /\ c # "app"
    /\ subscribers' = subscribers \ {c}
    /\ UNCHANGED <<screen, currentRoles, editor, ui, received>>
    /\ UNCHANGED <<syncStore, localStore, pendingChanges, writes, call, clock, deleted, message, thrown>>
    /\ UNCHANGED <<globalVars, taskVars, pageVars, settling, arg, pc>>

\* a dispatch that reaches every callback, removed listeners too
receivedByAll(last, subs, change) ==
    [c \in Callbacks |-> <<newValueOrEmpty(change)>>]

\* what every callback has last been called with, after a change was dispatched
\* to the listeners of subs
receivedAfter(last, subs, change) ==
    [c \in Callbacks |-> IF c \in subs THEN <<newValueOrEmpty(change)>> ELSE last[c]]

\* chrome.storage.onChanged is dispatched: every registered listener calls its
\* callback with newValue || [] (whatever the area), and the popup's callback
\* hands the list to the home screen
DispatchChange ==
    /\ InPopup
    /\ pendingChanges # <<>>
    /\ pendingChanges' = Tail(pendingChanges)
    /\ received' = receivedAfter(received, subscribers, Head(pendingChanges))
    /\ currentRoles' = IF "app" \in subscribers /\ screen = "home"
                       THEN newValueOrEmpty(Head(pendingChanges))
                       ELSE currentRoles
    /\ UNCHANGED <<screen, editor, ui, subscribers>>
    /\ UNCHANGED <<syncStore, localStore, writes, call, clock, deleted, message, thrown>>
    /\ UNCHANGED <<globalVars, taskVars, pageVars, settling, arg, pc>>

NextPopup ==
    \/ \E areaOk, readOk \in BOOLEAN : InitializeApp(areaOk, readOk)
    \/ \E k \in 0..Len(currentRoles) : OpenEditor(k)
    \/ EditorCancel
    \/ \E text \in NameTexts, areaOk, readOk, syncSetOk, localSetOk \in BOOLEAN,
          now \in clock..MaxClock, rnd \in PopupRandoms :
           EditorSave(text, areaOk, readOk, syncSetOk, localSetOk, now, rnd)
    \/ \E areaOk, readOk, syncSetOk, localSetOk \in BOOLEAN :
           EditorDelete(areaOk, readOk, syncSetOk, localSetOk)
    \/ \E k \in 1..Len(currentRoles), areaOk, readOk, syncSetOk, localSetOk \in BOOLEAN :
           CardDelete(k, areaOk, readOk, syncSetOk, localSetOk)
    \/ \E area \in {"sync", "local"}, change \in {<<>>, <<(<<ForeignRole>>)>>} :
           OtherContextWrites(area, change)
    \/ DispatchChange

SpecPopup ==
    InitPopup /\ [][NextPopup]_vars

\* the popup is opened while onRolesChanged has another caller
InitWatched ==
    /\ pc \in {"popupWatched", "popupWatchedLocalOnly"}
    /\ hostname = S_grok_com
    /\ href = 0
    /\ currentPlatform = NoPlatform
    /\ injectionButton = "null"
    /\ promptElement = 0
    /\ roles = <<>>
    /\ observerActive = FALSE
    /\ observers = <<>>
    /\ listeners = 0
    /\ inits = [ready |-> 0, awaitSync |-> 0, awaitLocal |-> 0]
    /\ timers = <<>>
    /\ attached = 0
    /\ elements = <<>>
    /\ StoredBefore
    /\ pendingChanges = <<>>
    /\ writes = 0
    /\ settling = FALSE
    /\ arg = <<>>
    /\ MenuAtRest
    /\ NoCallYet

NextWatched ==
    \/ NextPopup
    \/ \E c \in Callbacks : Subscribe(c)
    \/ \E c \in Callbacks : Unsubscribe(c)

SpecWatched ==
    InitWatched /\ [][NextWatched]_vars

\* the same when every pending dispatch of a change notification gets its turn
\* (the browser's event loop runs every queued event)
SpecWatchedLive ==
    SpecWatched /\ WF_vars(DispatchChange)

(***************************************************************************)
(* Two contexts calling the role store at once: each call suspends at its  *)
(* read of the list and at its write                                       *)
(***************************************************************************)

\* the contexts that have the role store loaded: the popup and a second window
Contexts ==
    {"popup", "window"}

\* a context that has no call of the store in progress
Idle ==
    [op |-> "none", data |-> [id |-> <<>>], stage |-> "idle", read |-> <<>>,
     role |-> <<>>, returned |-> FALSE]

\* the run is of the local-only variant of the service
OverlapLocalOnly ==
    pc = "overlapLocalOnly"

\* an extension with at most one stored role, held in the area its service
\* reads; no context has called the store
InitOverlap ==
    /\ pc \in {"overlap", "overlapLocalOnly"}
    /\ hostname = S_grok_com
    /\ currentPlatform = NoPlatform
    /\ promptElement = 0
    /\ attached = 0
    /\ elements = <<>>
    /\ arg = <<>>
    /\ href = 0
    /\ injectionButton = "null"
    /\ roles = <<>>
    /\ observerActive = FALSE
    /\ observers = <<>>
    /\ listeners = 0
    /\ inits = [ready |-> 0, awaitSync |-> 0, awaitLocal |-> 0]
    /\ timers = <<>>
    /\ \E list \in PopupStoredLists :
           IF OverlapLocalOnly
           THEN syncStore = <<>> /\ localStore = list
           ELSE syncStore = list /\ localStore = <<>>
    /\ pendingChanges = <<>>
    /\ writes = 0
    /\ settling = FALSE
    /\ MenuAtRest
    /\ call = [c \in Contexts |-> Idle]
    /\ clock = 1
    /\ deleted = {}
    /\ PopupAtRest
    /\ message = NoMessage
    /\ thrown = FALSE

\* what the awaited getAllRoles() of a call resumes with (every read succeeds)
rolesRead ==
    IF OverlapLocalOnly THEN LocalOnly_getAllRoles(TRUE) ELSE getAllRoles(TRUE, TRUE)

\* saveRole(data) in context c up to the return of "await getAllRoles()"
SaveRoleReads(c, data) ==
    /\ pc \in {"overlap", "overlapLocalOnly"}
    /\ call[c].stage = "idle"
    /\ call' = [call EXCEPT ![c] = [op |-> "saveRole", data |-> data, stage |-> "read",
                                    read |-> rolesRead, role |-> <<>>,
                                    returned |-> FALSE]]
    /\ UNCHANGED <<syncStore, localStore, pendingChanges, writes, clock, deleted,
                   popupVars, message, thrown>>
    /\ UNCHANGED <<globalVars, taskVars, pageVars, settling, arg, pc>>

\* saveRole in context c from there on: the role is built into the list that was
\* read, and the list is written to sync when it fits and to local otherwise
SaveRoleWrites(c, now, rnd) ==
    /\ pc \in {"overlap", "overlapLocalOnly"}
    /\ call[c].stage = "read"
    /\ call[c].op = "saveRole"
    /\ now >= clock
    /\ LET list   == savedList(call[c].read, call[c].data, now, rnd)
           toSync == ~OverlapLocalOnly /\ fitsInSync(list)
       IN  /\ syncStore' = IF toSync THEN list ELSE syncStore
           /\ localStore' = IF toSync THEN localStore ELSE list
           /\ call' = [call EXCEPT ![c].stage = "done",
                                   ![c].role = <<savedRole(call[c].read, call[c].data,
                                                           now, rnd)>>]
    /\ clock' = now
    /\ UNCHANGED <<pendingChanges, writes, deleted, popupVars, message, thrown>>
    /\ UNCHANGED <<globalVars, taskVars, pageVars, settling, arg, pc>>

\* deleteRole(id) in context c up to the return of "await getAllRoles()"
DeleteRoleReads(c, id) ==
    /\ pc \in {"overlap", "overlapLocalOnly"}
    /\ call[c].stage = "idle"
    /\ call' = [call EXCEPT ![c] = [op |-> "deleteRole", data |-> [id |-> id],
                                    stage |-> "read", read |-> rolesRead,
                                    role |-> <<>>, returned |-> FALSE]]
    /\ UNCHANGED <<syncStore, localStore, pendingChanges, writes, clock, deleted,
                   popupVars, message, thrown>>
    /\ UNCHANGED <<globalVars, taskVars, pageVars, settling, arg, pc>>

\* deleteRole in context c from there on: false when the list that was read has
\* no such role, else the filtered list is written (to both areas by the
\* sync-first service) and true is returned
DeleteRoleWrites(c) ==
    /\ pc \in {"overlap", "overlapLocalOnly"}
    /\ call[c].stage = "read"
    /\ call[c].op = "deleteRole"
    /\ LET filtered == filteredRoles(call[c].read, call[c].data.id)
           found    == Len(filtered) # Len(call[c].read)
       IN  /\ syncStore' = IF found /\ ~OverlapLocalOnly THEN filtered ELSE syncStore
           /\ localStore' = IF found THEN filtered ELSE localStore
           /\ call' = [call EXCEPT ![c].stage = "done", ![c].returned = found]
           /\ deleted' = IF found THEN deleted \cup {call[c].data.id} ELSE deleted
    /\ UNCHANGED <<pendingChanges, writes, clock, popupVars, message, thrown>>
    /\ UNCHANGED <<globalVars, taskVars, pageVars, settling, arg, pc>>

NextOverlap ==
    \/ \E c \in Contexts, n \in SavedNames : SaveRoleReads(c, [name |-> n])
    \/ \E c \in Contexts, now \in clock..MaxClock, rnd \in Randoms :
           SaveRoleWrites(c, now, rnd)
    \/ \E c \in Contexts : DeleteRoleReads(c, ForeignId)
    \/ \E c \in Contexts : DeleteRoleWrites(c)

SpecOverlap ==
    InitOverlap /\ [][NextOverlap]_vars

(***************************************************************************)
(* The service worker: the runtime message listener, beside a role store   *)
(* that saves and deletes                                                  *)
(***************************************************************************)

\* the types of the messages sent to the service worker
MessageTypes ==
    {"GET_ROLES", "PING"}

\* what chrome.storage.sync.get hands to its callback: the items, or on a failed
\* read no items at all (undefined) or an object without the key
GetResults ==
    {"items", "undefined", "noKey"}

\* a role store has the service worker beside it: the sync-first service or its
\* local-only variant
InitBackground ==
    /\ pc \in {"background", "backgroundLocalOnly"}
    /\ hostname = S_grok_com
    /\ currentPlatform = NoPlatform
    /\ promptElement = 0
    /\ attached = 0
    /\ elements = <<>>
    /\ arg = <<>>
    /\ EngineAtRest

\* the onMessage listener: GET_ROLES starts chrome.storage.sync.get and returns
\* true (the reply comes from the callback); any other type returns false
OnMessage(type) ==
    /\ pc \in {"background", "backgroundLocalOnly"} \/ Reading
    /\ message.state # "pending"
    /\ message' = [type    |-> type,
                   state   |-> IF type = "GET_ROLES" THEN "pending" ELSE "ignored",
                   result  |-> "none",
                   replies |-> 0,
                   roles   |-> <<>>]
    /\ UNCHANGED <<syncStore, localStore, pendingChanges, writes, call, clock,
                   deleted, popupVars, thrown>>
    /\ UNCHANGED <<globalVars, taskVars, pageVars, settling, arg, pc>>

\* the callback of chrome.storage.sync.get: sendResponse({ roles:
\* result.agentique_roles || [] }); reading the key of an undefined result
\* throws before sendResponse is reached
GetCallback(result) ==
    /\ pc \in {"background", "backgroundLocalOnly"} \/ Reading
    /\ message.state = "pending"
    /\ message' = IF result = "undefined"
                  THEN [message EXCEPT !.state = "threw", !.result = result]
                  ELSE [message EXCEPT !.state = "replied",
                                       !.result = result,
                                       !.replies = @ + 1,
                                       !.roles = IF result = "items" THEN syncStore
                                                 ELSE <<>>]
    /\ UNCHANGED <<syncStore, localStore, pendingChanges, writes, call, clock,
                   deleted, popupVars, thrown>>
    /\ UNCHANGED <<globalVars, taskVars, pageVars, settling, arg, pc>>

NextBackground ==
    \/ NextStore
    \/ \E type \in MessageTypes : OnMessage(type)
    \/ \E result \in GetResults : GetCallback(result)

SpecBackground ==
    InitBackground /\ [][NextBackground]_vars

(***************************************************************************)
(* The readers of the persisted roles: the content script, the popup and   *)
(* the service worker over one state of the two storage areas              *)
(***************************************************************************)

\* role sequences an area holds when the contexts read it
ContextLists ==
    {<<>>, <<RoleA>>, <<RoleB>>}

\* the content script is about to load its roles, the popup is being opened and
\* the service worker has received no message; the areas hold any sequences
InitContexts ==
    /\ pc \in {"contexts", "contextsLocalOnly"}
    /\ hostname = S_grok_com
    /\ href = 0
    /\ currentPlatform = "GROK"
    /\ injectionButton = "null"
    /\ promptElement = 0
    /\ roles = <<>>
    /\ observerActive = FALSE
    /\ observers = <<>>
    /\ listeners = 0
    /\ inits = [ready |-> 0, awaitSync |-> 1, awaitLocal |-> 0]
    /\ timers = <<>>
    /\ attached = 0
    /\ elements = <<>>
    /\ syncStore \in ContextLists
    /\ localStore \in ContextLists
    /\ pendingChanges = <<>>
    /\ writes = 0
    /\ settling = FALSE
    /\ arg = <<>>
    /\ MenuAtRest
    /\ NoCallYet

\* every context reads once, and no read fails: loadRoles of the content script,
\* getAllRoles of initializeApp, and the reply to a GET_ROLES message
NextContexts ==
    \/ SyncGetReturns(TRUE)
    \/ LocalGetReturns(TRUE)
    \/ InitializeApp(TRUE, TRUE)
    \/ message.type = "none" /\ OnMessage("GET_ROLES")
    \/ GetCallback("items")

SpecContexts ==
    InitContexts /\ [][NextContexts]_vars

(***************************************************************************)
(* Properties                                                              *)
(***************************************************************************)

\* pattern p occurs somewhere in hostname h
Occurs(p, h) ==
    \E i \in 1..(Len(h) - Len(p) + 1) : SubSeq(h, i, i + Len(p) - 1) = p

\* the descriptor at place k of the table has a host pattern that occurs in h
Patterned(k, h) ==
    \E j \in DOMAIN PLATFORMS[PlatformKeys[k]].hostPatterns :
        Occurs(PLATFORMS[PlatformKeys[k]].hostPatterns[j], h)

\* no descriptor of the table has a host pattern that occurs in h
Unmatched(h) ==
    \A k \in DOMAIN PlatformKeys : ~Patterned(k, h)

\* C1: for every hostname, detectPlatform returns the first descriptor in table
\* order (ChatGPT, Claude, Gemini, Grok) one of whose host patterns occurs in the
\* hostname, and none when no pattern occurs; chat.openai.com and chatgpt.com
\* resolve to ChatGPT and example.com resolves to none.
C1_DetectFirstMatch ==
    pc = "detected" =>
        /\ PlatformKeys = <<"CHATGPT", "CLAUDE", "GEMINI", "GROK">>
        /\ Unmatched(hostname) <=> currentPlatform = NoPlatform
        /\ \A k \in DOMAIN PlatformKeys :
               (Patterned(k, hostname) /\ \A m \in 1..(k - 1) : ~Patterned(m, hostname))
                   => currentPlatform = PlatformKeys[k]
        /\ hostname \in {S_chat_openai_com, S_chatgpt_com}
               => PLATFORMS[currentPlatform].name = "ChatGPT"
        /\ hostname = S_example_com => currentPlatform = NoPlatform

\* a hostname in which a Claude pattern comes before a ChatGPT pattern was
\* resolved, to the descriptor that is first in the table
C1_Witness ==
    /\ pc = "detected"
    /\ hostname = S_claude_ai \o S_chatgpt_com
    /\ currentPlatform = "CHATGPT"

\* every character of s is white space
Blank(s) ==
    \A i \in 1..Len(s) : s[i] \in {" ", "\n", "\t"}

\* the merge the specification describes
mergeText(existing, newText) ==
    IF Blank(existing) THEN newText ELSE existing \o <<"\n", "\n">> \o newText

\* C2: the merge yields the new text alone when the existing content is empty
\* after trimming (whitespace-only content included), and otherwise the existing
\* content, a blank-line separator, then the new text.
C2_MergeText ==
    [][pc = "merge" =>
          LET el  == elements[promptElement]
              now == elements'[promptElement]
          IN  IF el.kind = "textarea"
              THEN now.value = mergeText(el.value, arg)
              ELSE now.html = htmlContent(mergeText(textContent(el), arg))]_vars

\* number of places of s where sub occurs
Count(s, sub) ==
    Cardinality({i \in 1..Len(s) : occursAt(s, sub, i)})

RECURSIVE scanMarkup(_, _)
\* left to right from position i of t, inside an open paragraph: a double line
\* break closes the paragraph and opens the next, a single one is a line-break
\* element, any other character stands for itself
scanMarkup(t, i) ==
    IF i > Len(t) THEN <<"<", "/", "p", ">">>
    ELSE IF t[i] = "\n" /\ i < Len(t) /\ t[i + 1] = "\n"
         THEN <<"<", "/", "p", ">", "<", "p", ">">> \o scanMarkup(t, i + 2)
    ELSE IF t[i] = "\n" THEN <<"<", "b", "r", ">">> \o scanMarkup(t, i + 1)
    ELSE <<t[i]>> \o scanMarkup(t, i + 1)

\* one paragraph per piece between double line breaks, in order
ExpectedMarkup(t) ==
    <<"<", "p", ">">> \o scanMarkup(t, 1)

\* text without a double line break
SingleParagraph(t) ==
    ~Occurs(<<"\n", "\n">>, t)

\* the markup written for a content-editable surface is the paragraph markup of
\* the combined text
MarkupOfCombined ==
    pc = "merge" /\ elements[promptElement].kind = "editable" =>
        elements'[promptElement].html =
            ExpectedMarkup(combinedText(textContent(elements[promptElement]), arg))

C3_MountedOnlyWithRoles ==
    injectionButton = "inPage" => roles # <<>>

\* the step is the dispatch of a change notification to a registered listener
ChangeDelivered ==
    /\ pendingChanges # <<>>
    /\ pendingChanges' = Tail(pendingChanges)
    /\ listeners > 0

\* C4: when the engine holds an input element and no button is mounted because
\* the role list is empty, the next change notification that carries a non-empty
\* role sequence mounts the button.
C4_FirstSaveMounts ==
    [][(/\ promptElement # 0
        /\ injectionButton = "null"
        /\ roles = <<>>
        /\ ChangeDelivered
        /\ Head(pendingChanges) # <<>>)
           => injectionButton' = "inPage"]_vars

\* C5: from the teardown that follows a URL change observed while Ready until
\* the new search starts, no button is mounted and no element reference is held.
C5_NothingHeldWhileSettling ==
    settling => (injectionButton = "null" /\ promptElement = 0)

\* C6: every search stops at the first poll that finds the input element or is
\* cancelled when its stop timer fires: no scheduled interval has found the
\* element, has outlived its stop timer or has fired more than PollTimeoutMs /
\* PollIntervalMs = 30 times, and one that has fired 30 times can only be
\* cancelled.
C6_SearchBounded ==
    \A i \in 1..Len(timers) :
        timers[i].kind = "interval" =>
            /\ ~timers[i].hit
            /\ ~timers[i].fired
            /\ timers[i].n <= MaxPollTicks
            /\ timers[i].n = MaxPollTicks => ENABLED PollTimeout(i)
            /\ (i = 1 /\ timers[i].n = MaxPollTicks) => ~ENABLED PollTick

\* the first search of a supported page has been cancelled by its stop timer:
\* nothing is scheduled any more and no watcher was ever registered
C6_Witness ==
    /\ pc = "page"
    /\ currentPlatform # NoPlatform
    /\ inits = [ready |-> 0, awaitSync |-> 0, awaitLocal |-> 0]
    /\ timers = <<>>
    /\ observers = <<>>
    /\ attached # 0

\* on a supported page every search has ended and no element is held
IdleAfterSearch ==
    /\ pc = "page"
    /\ ~Unmatched(hostname)
    /\ inits = [ready |-> 0, awaitSync |-> 0, awaitLocal |-> 0]
    /\ timers = <<>>
    /\ promptElement = 0

\* C7: after a search has timed out, a later URL change on that page is seen by
\* the navigation watcher, which starts a new search.
C7_WatcherOutlivesTimeout ==
    [][(IdleAfterSearch /\ href' # href)
           => (\E k \in 1..Len(observers') : observers'[k] # href')]_vars

\* C8: the session is rebuilt when the held element leaves the page, so a role
\* selection is only ever merged into an element attached to the page.
C8_MergedIntoAttached ==
    [][\A e \in DOMAIN elements : elements'[e] # elements[e] => e = attached]_vars

\* C9: on a page whose hostname matches no descriptor the engine never loads
\* roles, never polls, never registers a watcher or a storage listener and never
\* mounts the button.
C9_UnmatchedInactive ==
    (pc = "page" /\ Unmatched(hostname)) =>
        /\ currentPlatform = NoPlatform
        /\ inits.awaitSync = 0
        /\ inits.awaitLocal = 0
        /\ roles = <<>>
        /\ polls = <<>>
        /\ observers = <<>>
        /\ observerActive = FALSE
        /\ listeners = 0
        /\ injectionButton = "null"
        /\ promptElement = 0

\* initializeInjector has returned on an unsupported page that shows an input
\* element and whose stored roles another context has changed
C9_Witness ==
    /\ pc = "page"
    /\ Unmatched(hostname)
    /\ inits.ready = 0
    /\ attached # 0
    /\ href > 0
    /\ writes > 0
    /\ pendingChanges = <<>>

\* t without its line breaks
RECURSIVE withoutBreaks(_)
withoutBreaks(t) ==
    IF t = <<>> THEN <<>>
    ELSE (IF Head(t) = "\n" THEN <<>> ELSE <<Head(t)>>) \o withoutBreaks(Tail(t))

\* C11: the markup written into a content-editable surface consists only of
\* paragraph and line-break elements wrapping literal text: every character of
\* the combined text other than a line break is text of the region afterwards,
\* none is read as markup.
C11_MarkupSafe ==
    [][(pc = "merge" /\ elements[promptElement].kind = "editable") =>
          textContentOf(elements'[promptElement].html) =
              withoutBreaks(combinedText(textContent(elements[promptElement]), arg))]_vars

\* the places of log that record event e
Places(log, e) ==
    {k \in DOMAIN log : log[k] = e}

\* log records e exactly once
Once(log, e) ==
    Cardinality(Places(log, e)) = 1

\* log records a and b once each, a before b
Before(log, a, b) ==
    /\ Once(log, a)
    /\ Once(log, b)
    /\ \A i \in Places(log, a), j \in Places(log, b) : i < j

RoleSelected ==
    /\ pc = "page"
    /\ injectionButton = "inPage"
    /\ \/ arg' # arg
       \/ \E e \in DOMAIN elements : elements'[e] # elements[e]

\* C13: each role selection merges the formatted role into the held surface
\* exactly once and leaves the detected platform, the held element reference,
\* the loaded role list and the mounted button as they were.
C13_InjectionFrame ==
    [][RoleSelected =>
          /\ promptElement # 0
          /\ MergesOf(elements'[promptElement]) = MergesOf(elements[promptElement]) + 1
          /\ \A e \in DOMAIN elements : e # promptElement => elements'[e] = elements[e]
          /\ UNCHANGED <<currentPlatform, promptElement, roles, injectionButton>>]_vars

\* the lines of t
Lines(t) ==
    split(t, <<"\n">>)

\* the lines a field contributes to the context block: none when it is
\* undefined or empty, its labelled value, or its header and one bullet per item
FieldLines(role, f) ==
    IF f \notin DOMAIN role \/ role[f] = <<>> THEN <<>>
    ELSE CASE f = "area"        -> << <<"A","r","e","a",":"," ">> \o role[f] >>
           [] f = "description" -> << L_Description \o role[f] >>
           [] f = "skills"      ->
                  << <<"S","k","i","l","l","s",":">> >>
                      \o [k \in 1..Len(role[f]) |-> <<"-", " ">> \o role[f][k]]
           [] f = "tools"       ->
                  << <<"T","o","o","l","s",":">> >>
                      \o [k \in 1..Len(role[f]) |-> <<"-", " ">> \o role[f][k]]
           [] f = "constraints" ->
                  << <<"C","o","n","s","t","r","a","i","n","t","s",":">> >>
                      \o [k \in 1..Len(role[f]) |-> <<"-", " ">> \o role[f][k]]
           [] f = "behavior"    -> << L_Behavior \o role[f] >>
           [] f = "moreInfo"    -> << L_MoreInfo \o role[f] >>

\* the fields of the context block in their fixed order
FieldOrder ==
    <<"area", "description", "skills", "tools", "constraints", "behavior", "moreInfo">>

RECURSIVE ContextLines(_, _)
\* the lines of the context block from field k on: the lines of every populated
\* field, a blank line between two populated fields
ContextLines(role, k) ==
    IF k > Len(FieldOrder) THEN <<>>
    ELSE LET here == FieldLines(role, FieldOrder[k])
             rest == ContextLines(role, k + 1)
         IN  IF here = <<>> THEN rest
             ELSE IF rest = <<>> THEN here
             ELSE here \o << <<>> >> \o rest

\* C14: format(role) emits the name line, the task placeholder, the Role Context
\* block and the trailing more-context placeholder in this order; the block lists
\* exactly the populated fields in the order area, description, skills, tools,
\* constraints, behavior, additional info, each item of a sequence field as one
\* bullet; an empty or undefined field contributes no line and no header.
C14_FormatSections ==
    pc = "formatted" =>
        LET role == roles[1]
            ctx  == ContextLines(role, 1)
        IN  Lines(arg) =
                << <<"R","o","l","e",":"," ">> \o role.name, <<>>, <<>>, L_Task, <<>>, <<>>,
                   L_RoleContext >>
                \o (IF ctx = <<>> THEN << <<>> >> ELSE ctx)
                \o << <<>>, <<>>, L_MoreContext >>

\* a role with two skills and a tool, an empty description and no behavior was
\* formatted
C14_Witness ==
    /\ pc = "formatted"
    /\ "skills" \in DOMAIN roles[1] /\ Len(roles[1].skills) = 2
    /\ "tools" \in DOMAIN roles[1] /\ Len(roles[1].tools) = 1
    /\ "description" \in DOMAIN roles[1] /\ roles[1].description = <<>>
    /\ "behavior" \notin DOMAIN roles[1]
    /\ Len(arg) > 0

\* the role has no optional field that is populated
OnlyName(role) ==
    \A f \in OptionalFields : f \notin DOMAIN role \/ role[f] = <<>>

\* the lines of t that are not empty, in order
InkedLines(t) ==
    SelectSeq(Lines(t), LAMBDA l : l # <<>>)

\* C15: for a role with only its name set the output holds no field line of any
\* absent field: after the name line and the task placeholder come only the
\* fixed headers and placeholders of the template (in the injector the Role
\* Context header and the more-context placeholder; in the role store's
\* formatter the context placeholder, the rule and the Role Profile header).
C15_OnlyNameFixedLines ==
    ((pc \in {"formatted", "formattedByStore"}) /\ OnlyName(roles[1])) =>
        InkedLines(arg) =
            << <<"R","o","l","e",":"," ">> \o roles[1].name, L_Task >>
            \o (IF pc = "formatted"
                THEN <<L_RoleContext, L_MoreContext>>
                ELSE <<L_Context, L_Rule, L_RoleProfile>>)

\* C15 as stated: for a role with only its name set the output has exactly two
\* sections, the name line and the task placeholder.
C15_AsStated ==
    ((pc \in {"formatted", "formattedByStore"}) /\ OnlyName(roles[1])) =>
        InkedLines(arg) = << <<"R","o","l","e",":"," ">> \o roles[1].name, L_Task >>

\* the injector formatted a role whose area is the empty string, whose skills
\* are an empty sequence and whose other fields are undefined
C15_Witness ==
    /\ pc = "formatted"
    /\ DOMAIN roles[1] = {"id", "name", "area", "skills"}
    /\ OnlyName(roles[1])
    /\ Len(arg) > 0

Arealess(rs) ==
    {k \in 1..Len(rs) : rs[k].area = <<>>}

\* the place of a rendering at which the role of place k of the list is shown
ShownAt(out, rs, k) ==
    {i \in 1..Len(out) : out[i] = [kind |-> "item", text |-> rs[k].name]}

\* the place of a rendering at which the header of an area is shown
HeadedAt(out, area) ==
    {i \in 1..Len(out) : out[i] = [kind |-> "area", text |-> area]}

\* a sorts strictly before b in lexicographic order of the code units
Lexicographic(a, b) ==
    \E n \in 0..Len(a) :
        /\ n <= Len(b)
        /\ \A i \in 1..n : a[i] = b[i]
        /\ \/ n = Len(a) /\ n < Len(b)
           \/ n < Len(a) /\ n < Len(b) /\ CodeUnit[a[n + 1]] < CodeUnit[b[n + 1]]

\* the role of place j comes before the role of place k in the stated order
StatedBefore(rs, j, k) ==
    \/ j \in Arealess(rs) /\ k \notin Arealess(rs)
    \/ j \in Arealess(rs) /\ k \in Arealess(rs) /\ j < k
    \/ j \notin Arealess(rs) /\ k \notin Arealess(rs) /\ Lexicographic(rs[j].area, rs[k].area)
    \/ j \notin Arealess(rs) /\ k \notin Arealess(rs) /\ rs[j].area = rs[k].area /\ j < k

\* a rendering shows every role of the list exactly once in the stated order,
\* and one header per distinct area directly before the first role of the area
StatedOrder(out, rs) ==
    /\ Len(out) = Len(rs) + Cardinality({rs[k].area : k \in 1..Len(rs) \ Arealess(rs)})
    /\ \A k \in 1..Len(rs) : Cardinality(ShownAt(out, rs, k)) = 1
    /\ \A j, k \in 1..Len(rs) :
           StatedBefore(rs, j, k) =>
               \A i \in ShownAt(out, rs, j), l \in ShownAt(out, rs, k) : i < l
    /\ \A k \in 1..Len(rs) \ Arealess(rs) :
           /\ Cardinality(HeadedAt(out, rs[k].area)) = 1
           /\ (\A j \in 1..(k - 1) : rs[j].area # rs[k].area) =>
                  \A i \in ShownAt(out, rs, k) : (i - 1) \in HeadedAt(out, rs[k].area)

\* C17: for every non-empty role list the injector dropdown and the popup role
\* list show each role exactly once, roles without an area first in their
\* original order, then one group per distinct area, the areas in lexicographic
\* order and the roles of an area in their original relative order.
C17_GroupedByArea ==
    (roles # <<>> /\ pc # "group") => StatedOrder(arg, roles)

\* C17 on the lists whose areas name no property of Object.prototype
C17_OrdinaryAreas ==
    (roles # <<>> /\ pc # "group" /\ ~groupingThrows(roles)) => StatedOrder(arg, roles)

\* the example list [A:Eng, B:(none), C:Eng, D:Ops] is shown as B, [Eng] A, C, [Ops] D
C17_Example ==
    (/\ pc \in {"dropdown", "list"}
     /\ [k \in 1..Len(roles) |-> roles[k].area]
            = <<<<"E", "n", "g">>, <<>>, <<"E", "n", "g">>, <<"O", "p", "s">>>>)
        => arg = <<[kind |-> "item", text |-> <<"2">>],
                   [kind |-> "area", text |-> <<"E", "n", "g">>],
                   [kind |-> "item", text |-> <<"1">>],
                   [kind |-> "item", text |-> <<"3">>],
                   [kind |-> "area", text |-> <<"O", "p", "s">>],
                   [kind |-> "item", text |-> <<"4">>]>>

\* at most one dropdown is in the document
AtMostOneDropdown ==
    Cardinality(inDocument(dropdowns)) <= 1

\* while the last click was a button activation, its dropdown is in the
\* document, and it has its open class once the open delay has run
OpensOnActivation ==
    (closeAge = -1 /\ dropdowns # <<>>) =>
        /\ Len(dropdowns) \in inDocument(dropdowns)
        /\ (\A i \in 1..Len(timeouts) :
                ~(timeouts[i].kind = "open" /\ timeouts[i].dropdown = Len(dropdowns)))
               => dropdowns[Len(dropdowns)].open

\* once more than the close delay has passed since a selection or an outside
\* click that no activation followed, no dropdown is in the document
NoneAfterClose ==
    closeAge > CloseDelayMs => inDocument(dropdowns) = {}

\* C18: the dropdown opens on each button activation and closes on an outside
\* click or on the selection of a role: after any sequence of activations,
\* selections and outside clicks at most one dropdown exists, and after a
\* selection or an outside click none remains once the close delay has passed.
C18_DropdownLifecycle ==
    /\ AtMostOneDropdown
    /\ OpensOnActivation
    /\ NoneAfterClose

\* the ids of the roles stored in any storage area
StoredIds ==
    idsOf(syncStore) \cup idsOf(localStore)

\* a list without the one role of the given id, the others in their order
WithoutRole(list, id) ==
    SelectSeq(list, LAMBDA r : r.id # id)

\* the step removes exactly the role of the id from a list that holds it
RemovedFrom(before, after, id) ==
    /\ after = WithoutRole(before, id)
    /\ Len(before) - Len(after) <= 1

\* deleteRole of an id no area stores returned false, did not raise, and left
\* every area as it was
DeleteUnknown ==
    (call'.op = "deleteRole" /\ call'.data.id \notin StoredIds) =>
        /\ ~call'.raised
        /\ ~call'.returned
        /\ syncStore' = syncStore
        /\ localStore' = localStore

\* deleteRole of a stored id removed exactly that role from every area and
\* returned true
DeleteStored ==
    (call'.op = "deleteRole" /\ call'.data.id \in StoredIds) =>
        /\ ~call'.raised
        /\ call'.returned
        /\ RemovedFrom(syncStore, syncStore', call'.data.id)
        /\ RemovedFrom(localStore, localStore', call'.data.id)

\* C19: deleteRole with an id that matches no stored role returns false, does
\* not raise and leaves the stored sequence unchanged in every storage area;
\* deleteRole with a stored id removes exactly that role, keeps the others in
\* order and returns true.
C19_DeleteRole ==
    [][DeleteUnknown /\ DeleteStored]_vars

\* C19 for the ids no area stores
C19_UnknownId ==
    [][DeleteUnknown]_vars

\* saveRole was called without an id or with an id no area stores
SavedAsNew ==
    /\ call'.op = "saveRole"
    /\ "id" \notin DOMAIN call'.data \/ call'.data.id \notin StoredIds

\* the step appended the role to one storage area and left the other as it was
AppendedOnce(new) ==
    \/ syncStore' = Append(syncStore, new) /\ localStore' = localStore
    \/ localStore' = Append(localStore, new) /\ syncStore' = syncStore

\* C20: saveRole with an id that is absent or matches no stored role appends
\* exactly one new entry whose id is freshly generated (distinct from every
\* stored id) and whose createdAt and updatedAt are both set, and leaves all
\* existing entries unchanged.
C20_SaveAppendsFresh ==
    [][SavedAsNew =>
          /\ ~call'.raised
          /\ call'.generated
          /\ call'.role[1].id \notin StoredIds
          /\ call'.role[1].createdAt > 0
          /\ call'.role[1].updatedAt > 0
          /\ AppendedOnce(call'.role[1])]_vars

\* saveRole was called with the id of a role some area stores, and returned
SavedAsKnown ==
    /\ call'.op = "saveRole"
    /\ ~call'.raised
    /\ "id" \in DOMAIN call'.data
    /\ call'.data.id \in StoredIds

\* the step changed one role of the id in the list and nothing else: the role
\* kept its place, its id and its createdAt, and its updatedAt is the save's time
UpdatedInPlace(before, after, id) ==
    /\ Len(after) = Len(before)
    /\ \E k \in 1..Len(before) :
           /\ before[k].id = id
           /\ after[k].id = id
           /\ after[k].createdAt = before[k].createdAt
           /\ after[k].updatedAt = clock'
           /\ \A j \in 1..Len(before) : j # k => after[j] = before[j]

\* C21: saveRole with the id of a stored role keeps that role's createdAt and
\* its position in the sequence, sets its updatedAt to the time of the save, and
\* neither adds nor removes nor changes any other entry.
C21_SaveKeepsPlace ==
    [][SavedAsKnown =>
          /\ syncStore' = syncStore \/ UpdatedInPlace(syncStore, syncStore', call'.data.id)
          /\ localStore' = localStore \/ UpdatedInPlace(localStore, localStore', call'.data.id)
          /\ \/ UpdatedInPlace(syncStore, syncStore', call'.data.id)
             \/ UpdatedInPlace(localStore, localStore', call'.data.id)]_vars

\* the fields of a role a save may change
MutableFields ==
    {"name", "area", "description", "skills", "tools", "constraints", "behavior", "moreInfo"}

\* the role carries the mutable fields of the data and no value of its own
ReplacedBy(role, data) ==
    \A f \in MutableFields :
        role[f] = IF f \in DOMAIN data THEN data[f] ELSE <<>>

\* C22: a stored role is mutated only by a full replace on save: after saveRole
\* with a known id the stored role's mutable fields are exactly those of the
\* input, and a mutable field absent from the input does not keep its previously
\* stored value.
C22_SaveReplaces ==
    [][SavedAsKnown =>
          /\ ReplacedBy(call'.role[1], call'.data)
          /\ \E list \in {syncStore', localStore'} :
                 \E k \in 1..Len(list) : list[k] = call'.role[1]]_vars

\* every role of the list has a non-empty id, and no two share one
SoundIds(list) ==
    /\ \A k \in 1..Len(list) : list[k].id # <<>>
    /\ \A j, k \in 1..Len(list) : list[j].id = list[k].id => j = k

\* a save stored a role whose id no area stored before
StoredUnderNewId ==
    /\ call'.op = "saveRole"
    /\ ~call'.raised
    /\ call'.role[1].id \notin StoredIds

\* C23: after any sequence of saveRole and deleteRole operations every stored
\* role has a non-empty id, no two stored roles share an id, and the id of a
\* deleted role is never carried by a role created later.
C23_IdsSoundNeverReused ==
    /\ [](SoundIds(syncStore) /\ SoundIds(localStore))
    /\ [][StoredUnderNewId => call'.role[1].id \notin deleted]_vars

\* C23 for the emptiness of ids alone
C23_NoEmptyId ==
    \A list \in {syncStore, localStore} : \A k \in 1..Len(list) : list[k].id # <<>>

\* a click handler of the popup has run in this step
Clicked ==
    ui'.n # ui.n

\* every role of a list has a name
AllNamed(list) ==
    \A k \in 1..Len(list) : list[k].name # <<>>

\* a Save click with a blank name writes no area, queues no notification and
\* leaves the home screen's list as it is
BlankSaveIsIdle ==
    Clicked /\ ui'.op = "save" /\ Blank(ui'.text)
        => /\ ui'.written = {}
           /\ syncStore' = syncStore
           /\ localStore' = localStore
           /\ pendingChanges' = pendingChanges
           /\ currentRoles' = currentRoles

\* a Save click that writes an area writes a list of named roles, the saved one
\* among them under the trimmed, non-empty name
NamedSaveWritten ==
    Clicked /\ ui'.op = "save" /\ ui'.written # {}
        => /\ ~Blank(ui'.text)
           /\ "sync" \in ui'.written => AllNamed(syncStore')
           /\ "local" \in ui'.written => AllNamed(localStore')
           /\ \E k \in 1..Len(currentRoles') :
                  /\ currentRoles'[k].name # <<>>
                  /\ ~Blank(currentRoles'[k].name)

\* C24: every role a save writes to the store has a non-empty name, and a save
\* attempt whose name is empty after trimming persists nothing and changes no
\* stored role
C24_NamedOnSave ==
    [][BlankSaveIsIdle /\ NamedSaveWritten]_vars

\* C24 witness: after a role was saved under a generated id, a Save click with
\* a name of one space has been turned down
C24_BlankRejected ==
    /\ ui.op = "save"
    /\ ui.rejected
    /\ ui.text = <<" ">>
    /\ \E id \in idsOf(syncStore) \cup idsOf(localStore) : id # ForeignId

\* the notifications a step has added to the queue
Queued ==
    IF Len(pendingChanges') >= Len(pendingChanges)
    THEN SubSeq(pendingChanges', Len(pendingChanges) + 1, Len(pendingChanges'))
    ELSE <<>>

\* a notification that carries the list as the record's new value, or no new
\* value when the list is that of a removed record
Carries(change, list) ==
    \/ change = <<list>>
    \/ change = <<>> /\ list = <<>>

\* a step that changes what an area holds queues a notification carrying the
\* area's new role sequence
ChangeQueued ==
    /\ syncStore' # syncStore => \E i \in 1..Len(Queued) : Carries(Queued[i], syncStore')
    /\ localStore' # localStore => \E i \in 1..Len(Queued) : Carries(Queued[i], localStore')

\* a notification leaves the queue only by being handed to every subscribed
\* callback: the full sequence it carries, or the empty one for a removed record
DeliveredToSubscribers ==
    Len(pendingChanges') < Len(pendingChanges)
        => /\ pendingChanges' = Tail(pendingChanges)
           /\ \A c \in subscribers :
                  received'[c] = << IF Head(pendingChanges) = <<>> THEN <<>>
                                    ELSE Head(pendingChanges)[1] >>

\* a callback that is not subscribed is not called
NoneAfterUnsubscribe ==
    \A c \in Callbacks \ subscribers : received'[c] = received[c]

\* C25: whenever the persisted role sequence changes by any cause, every
\* subscribed callback is eventually delivered the full updated sequence (the
\* empty one when the record is removed), and a callback receives nothing once
\* it is unsubscribed
C25_ChangesDelivered ==
    /\ [][ChangeQueued /\ DeliveredToSubscribers /\ NoneAfterUnsubscribe]_vars
    /\ (pendingChanges # <<>>) ~> (pendingChanges = <<>>)

\* C25 witness: the other callback got the empty sequence of a removed record
\* and unsubscribed; the popup's callback has since been delivered a saved role
C25_DeliveredThenUnsubscribed ==
    /\ "other" \notin subscribers
    /\ received["other"] = << <<>> >>
    /\ "app" \in subscribers
    /\ received["app"] \notin {<<>>, << <<>> >>}
    /\ ui.op = "save"
    /\ pendingChanges = <<>>

\* loadRoles has resumed from a rejected chrome.storage.sync.get in this step (a
\* resolved one goes on to the local read, or leaves roles)
SyncReadFailed ==
    /\ inits'.awaitSync < inits.awaitSync
    /\ inits'.awaitLocal = inits.awaitLocal
    /\ roles' = <<>>

CommittedAfterWrite ==
    Clicked /\ currentRoles' # currentRoles
        => ui'.written # {} /\ ~ui'.alerted

\* a click handler whose call raised, or attempted a write that did not go
\* through, leaves the home screen's list exactly as it was
KeptOnFailure ==
    Clicked /\ (ui'.alerted \/ (ui'.attempted /\ ui'.written = {}))
        => currentRoles' = currentRoles

\* C27: the popup's in-memory role list is not optimistically committed: a
\* save or delete changes it only after the storage write has succeeded, and a
\* failed write leaves it exactly what it was
C27_NotOptimistic ==
    [][CommittedAfterWrite /\ KeptOnFailure]_vars

\* C27 witness: a save of a named role has failed with a notice while the home
\* screen lists a role
C27_FailedSaveKept ==
    /\ ui.op = "save"
    /\ ~ui.rejected
    /\ ui.alerted
    /\ ui.written = {}
    /\ currentRoles # <<>>

\* C28: when the storage write of a save or of a delete fails (it was attempted
\* and went through in no area), the click that started it ends with a failure
\* notice
C28_FailedWriteNoticed ==
    [][Clicked /\ ui'.attempted /\ ui'.written = {} => ui'.alerted]_vars

\* the role sequence the role store has persisted: what its getAllRoles reads
\* back when no read fails
Persisted ==
    IF pc = "backgroundLocalOnly" THEN LocalOnly_getAllRoles(TRUE)
    ELSE getAllRoles(TRUE, TRUE)

\* the callback of a GET_ROLES request has run in this step
Answered ==
    message.state = "pending" /\ message'.state # "pending"

\* a request is answered once, with the persisted sequence when the read handed
\* over the items and with the empty sequence when it failed
AnsweredWithPersisted ==
    Answered
        => /\ message'.replies = 1
           /\ message'.roles = IF message'.result = "items" THEN Persisted ELSE <<>>

\* a message of another type gets no reply
OthersUnanswered ==
    message'.type # "GET_ROLES" => message'.replies = 0

\* C29: every GET_ROLES request receives exactly one reply, carrying the role
\* sequence the role store currently persists, or the empty sequence when the
\* storage read fails; a message of any other type receives no reply
C29_GetRolesAnswered ==
    [][AnsweredWithPersisted /\ OthersUnanswered]_vars

\* C30: no callback of the injection engine throws an unhandled error into the
\* host page in any reachable state, an outside click after the button was torn
\* down included
C30_NothingThrown ==
    ~thrown

\* every context has read the roles
AllHaveRead ==
    /\ inits.awaitSync = 0
    /\ inits.awaitLocal = 0
    /\ screen = "home"
    /\ message.state = "replied"

\* C31: the persisted roles are one logical record for every execution context:
\* for every state of the two areas, loadRoles of the content script,
\* getAllRoles of the popup and the GET_ROLES reply of the service worker give
\* the same role sequence
C31_OneRecord ==
    AllHaveRead => roles = currentRoles /\ currentRoles = message.roles

\* the engine of a supported page has loaded its roles and every change
\* notification has been dispatched
AllDelivered ==
    /\ pc = "page"
    /\ ~Unmatched(hostname)
    /\ inits = [ready |-> 0, awaitSync |-> 0, awaitLocal |-> 0]
    /\ SelectSeq(timers, LAMBDA t : t.kind = "settle") = <<>>
    /\ pendingChanges = <<>>

\* C32: changes of the role store reach the engine: once every pending
\* notification has been delivered the engine's role list is the persisted
\* sequence, also when the role was saved during the search, and so whenever the
\* persisted sequence is non-empty and an input element is held the button is
\* mounted in the end
C32_ChangesReachEngine ==
    /\ [](AllDelivered => roles = loadRoles(syncStore, localStore))
    /\ (pc = "page" /\ promptElement # 0 /\ loadRoles(syncStore, localStore) # <<>>)
           ~> (injectionButton # "null" \/ promptElement = 0
                  \/ loadRoles(syncStore, localStore) = <<>>)

\* the step creates a wrapper: the held button is another one than before
Mounts ==
    injectionButton' # "null" /\ injectionButton' # injectionButton

\* the step is a poll tick that finds the element the engine already holds
Redetects ==
    /\ timers # <<>>
    /\ timers[1].kind = "interval"
    /\ timers' = timersAfterFound(timers, 1)
    /\ promptElement # 0
    /\ promptElement = attached

\* C33: under every interleaving of poll ticks, navigations and storage
\* notifications the engine has at most one button in the page: a wrapper is
\* created only while no button is held, and while a button is mounted the
\* re-detection of the held element changes neither the button, the element, the
\* roles nor the watchers, and a further non-empty role update changes neither
\* the button nor the element
C33_SingleButton ==
    [][/\ Mounts => injectionButton = "null"
       /\ (injectionButton # "null" /\ Redetects)
              => UNCHANGED <<injectionButton, promptElement, roles, observers,
                             listeners, observerActive>>
       /\ (injectionButton # "null" /\ ChangeDelivered /\ Head(pendingChanges) # <<>>)
              => UNCHANGED <<injectionButton, promptElement>>]_vars

\* a button is mounted over the held element, a second search is still polling
\* for it, and a further non-empty role update has been delivered
C33_Witness ==
    /\ pc = "page"
    /\ injectionButton = "inPage"
    /\ promptElement # 0
    /\ promptElement = attached
    /\ polls # <<>>
    /\ writes > 0
    /\ pendingChanges = <<>>
    /\ syncStore # <<>>
    /\ localStore # <<>>

\* the step is a URL change seen by the navigation watchers: a registered
\* watcher takes the new URL as its last one
UrlChangeObserved ==
    /\ Len(observers') = Len(observers)
    /\ observers' # observers

\* C34: the background tasks of the engine do not accumulate: at most one
\* navigation watcher, at most one storage-change listener and at most one
\* polling task are active at a time, and each observed URL change starts
\* exactly one new search
C34_NoAccumulation ==
    /\ [](pc = "page" => /\ Len(observers) <= 1
                         /\ listeners <= 1
                         /\ Len(polls) <= 1)
    /\ [][UrlChangeObserved => Len(timers') = Len(timers) + 1]_vars

\* C35: in every reachable state a mounted button implies that the engine holds
\* an input element, under every interleaving of poll ticks with the teardown
\* of a navigation, so a role picked from a mounted button is never dropped
C35_MountedHoldsElement ==
    /\ [](injectionButton # "null" => promptElement # 0)
    /\ [][(\E k \in 1..Len(roles) : InjectRole(k)) => elements' # elements]_vars

\* the write of a merge into el went through innerHTML
WroteMarkup(el) ==
    \E k \in DOMAIN el.log : el.log[k] = "innerHTML"

\* the write of a merge into el went through value
WroteValue(el) ==
    \E k \in DOMAIN el.log : el.log[k] = "value"

\* C36: the merge strategy matches the kind of the located element: for every
\* element the input selector of a platform can match, the content-editable
\* path is applied only to an editable region and the value path only to a
\* value-bearing field
C36_StrategyMatchesKind ==
    pc = "merged" =>
        /\ WroteMarkup(elements[promptElement])
               => elements[promptElement].kind = "editable"
        /\ WroteValue(elements[promptElement])
               => elements[promptElement].kind = "textarea"

\* what getAllRoles() of the loaded service returns when its reads succeed
ReadBack ==
    IF pc = "roleStorageLocalOnly" THEN LocalOnly_getAllRoles(TRUE)
    ELSE getAllRoles(TRUE, TRUE)

\* C37: save then read round-trips: after saveRole has returned a role without
\* raising, getAllRoles with no write in between returns a sequence that holds
\* exactly that role under its id, whichever area received the write
C37_SaveThenRead ==
    (call.op = "saveRole" /\ ~call.raised) =>
        /\ Cardinality({k \in 1..Len(ReadBack) : ReadBack[k].id = call.role[1].id}) = 1
        /\ \A k \in 1..Len(ReadBack) :
               ReadBack[k].id = call.role[1].id => ReadBack[k] = call.role[1]

\* the calls of contexts c and d have both completed, and each had read the list
\* before the other wrote it
Overlapped(c, d) ==
    /\ c # d
    /\ call[c].stage = "done"
    /\ call[d].stage = "done"
    /\ call[c].read = call[d].read

\* C38: two overlapping saveRole calls for distinct new roles from two contexts,
\* each reading before the other writes, leave a stored sequence that holds both
\* roles; and a deleteRole that overlaps a saveRole loses neither the deletion
\* nor the saved role
C38_OverlapLosesNothing ==
    \A c, d \in Contexts :
        /\ (/\ Overlapped(c, d)
            /\ call[c].op = "saveRole"
            /\ call[d].op = "saveRole"
            /\ call[c].role[1].id # call[d].role[1].id)
               => {call[c].role[1].id, call[d].role[1].id} \subseteq StoredIds
        /\ (/\ Overlapped(c, d)
            /\ call[c].op = "deleteRole"
            /\ call[c].returned
            /\ call[d].op = "saveRole")
               => /\ call[d].role[1].id \in StoredIds
                  /\ call[c].data.id \notin StoredIds

\* C39: there is one canonical template: for every role,
\* RoleStorage.formatRoleForInjection and formatRoleForInjection of the content
\* script return the same string
C39_OneTemplate ==
    pc = "formattedByStore" => arg = formatRoleForInjection(roles[1])

\* C40: read-after-write on the input surface: the content read back right after
\* a merge is the combined text that was written, for a plain field and for a
\* content-editable region alike, so that a second injection would start from
\* the first one's text with its paragraph and line breaks intact
C40_ReadAfterWrite ==
    [][pc = "merge" =>
          getPromptValue(elements'[promptElement], currentPlatform) =
              combinedText(getPromptValue(elements[promptElement], currentPlatform), arg)]_vars

====
